---- MODULE Spec2Model ----
(***************************************************************************)
(* Peer session negotiation of the walkie-talkie (live-link variant,       *)
(* src/unnamed/part_000 lines 48-315).  Several clients run the same       *)
(* component; they meet in one Firestore channel document and its two      *)
(* candidate sub-collections.  Every await of the source is a step         *)
(* boundary: a join invocation is a coroutine whose position is            *)
(* joins[j].at, and the objects it creates (the MediaStream, the           *)
(* RTCPeerConnection, its two snapshot listeners) carry the number j of    *)
(* the invocation that created them.                                       *)
(***************************************************************************)
EXTENDS Integers, Sequences, FiniteSets, TLC

\* ------------------------------------------------------------- bounds
NumClients == 3     \* browser tabs running the component
MaxJoins == 3       \* joinFrequency invocations in one behaviour of Spec
MaxPowerOns == 2    \* joinFrequency invocations of one client
MaxJoinsReset == 2  \* joinFrequency invocations in one behaviour of SpecReset
MaxResets == 1      \* resetChannel invocations in one behaviour of SpecReset
MaxJoinsIce == 2    \* joinFrequency invocations in one behaviour of SpecIce
MaxCands == 2       \* ICE candidates gathered in one behaviour of SpecIce
MaxJoinsAuth == 2   \* joinFrequency invocations in one behaviour of SpecAuth
MaxJoinsConn == 2   \* joinFrequency invocations in one behaviour of SpecConn
MaxJoinsResolve == 2 \* joinFrequency invocations in one behaviour of SpecResolve
MaxTunes == 1       \* adjustFrequency invocations in one behaviour of SpecResolve
MaxJoinsTune == 2   \* joinFrequency invocations in one behaviour of SpecTune
MaxTunesTune == 2   \* adjustFrequency invocations in one behaviour of SpecTune
MaxJoinsAdjust == 2 \* joinFrequency invocations in one behaviour of SpecAdjust
MaxTunesAdjust == 2 \* adjustFrequency invocations in one behaviour of SpecAdjust
MaxJoinsTalk == 2   \* joinFrequency invocations in one behaviour of SpecTalk
MaxTunesSf == 1     \* adjustFrequency invocations in one behaviour of SpecSf
MaxMessages == 3    \* messages sent in one behaviour of SpecSf
MaxNow == 31        \* seconds the clock runs in one behaviour of SpecSf
TickSeconds == 31   \* seconds between two observations of the clock
NumSfClients == 2   \* tabs running the store-and-forward component in SpecSf
MaxJoinsStale == 2  \* joinFrequency invocations in one behaviour of SpecStale
MaxCandsStale == 3  \* ICE candidates in the collections in one behaviour of SpecStale

Clients == 1..NumClients
Max(a, b) == IF a > b THEN a ELSE b
Joins == 1..Max(MaxJoins, Max(MaxJoinsReset, Max(MaxJoinsIce, Max(MaxJoinsAuth, Max(MaxJoinsConn, Max(MaxJoinsResolve, Max(MaxJoinsStale, Max(MaxJoinsTune, Max(MaxJoinsAdjust, MaxJoinsTalk)))))))))

VARIABLES
  user,             \* [Clients -> BOOLEAN]   useState(null), set by onAuthStateChanged
  isOn,             \* [Clients -> BOOLEAN]   useState(false)
  connectionStatus, \* [Clients -> STRING]    useState("DISCONNECTED")
  pcCur,            \* [Clients -> 0..MaxJoins] pc.current (0 is null)
  localStream,      \* [Clients -> 0..MaxJoins] localStream.current (0 is null)
  unsubscribeRef,   \* [Clients -> 0..MaxJoins] unsubscribeRef.current (0 is null)
  resetPending,     \* [Clients -> BOOLEAN]   resetChannel suspended at await deleteDoc
  nJoins,           \* joinFrequency invocations so far
  nResets,          \* resetChannel invocations so far
  joins,            \* [Joins -> coroutine of one joinFrequency invocation]
  pcs,              \* [Joins -> the RTCPeerConnection created by that invocation]
  streams,          \* [Joins -> the MediaStream acquired by that invocation]
  subs,             \* [Joins -> the snapshot listeners registered by that invocation]
  channel,          \* the walkie_channels/<callId> document
  offerCandidates,  \* sub-collection written by hosts
  answerCandidates, \* sub-collection written by guests
  resetEpoch,       \* history: nJoins when deleteDoc last removed an occupied document (-1: never)
  limit,            \* the bounds of the behaviour, fixed by the initial condition
  frequency,        \* [Clients -> hundredths of MHz] useState(105.50)
  resetId,          \* [Clients -> callId of the suspended resetChannel] (<<>>: none)
  nTunes,           \* adjustFrequency invocations so far
  sfApp,            \* [Clients -> state of the store-and-forward component]
  messages,         \* the walkie_messages collection, in order of creation
  now,              \* Date.now() and the server clock, in seconds
  isTalking,        \* [Clients -> BOOLEAN] useState(false), line 52
  audio             \* [Clients -> playback of the store-and-forward component]

vars == <<user, isOn, connectionStatus, pcCur, localStream, unsubscribeRef,
          resetPending, nJoins, nResets, joins, pcs, streams, subs, channel,
          offerCandidates, answerCandidates, resetEpoch, limit, frequency, resetId, nTunes, sfApp, messages, now, isTalking, audio>>

\* ------------------------------------------------------ values
\* A session description, identified by the peer connection that generated
\* it (by) and, for an answer, the connection whose offer it answers (to).
NoDesc == [type |-> "none", by |-> 0, to |-> 0]
OfferDesc(p) == [type |-> "offer", by |-> p, to |-> 0]
AnswerDesc(p, o) == [type |-> "answer", by |-> p, to |-> o]

\* The channel document: absent, or { offer, answer? }.
\* offerJoin/answerJoin name the joinFrequency invocation that wrote the field
\* (hostId/guestId is that invocation's user.uid).
NoDoc == [exists |-> FALSE, offer |-> NoDesc, hostId |-> 0, offerJoin |-> 0,
          answer |-> NoDesc, guestId |-> 0, answerJoin |-> 0]

Inc2(n) == IF n < 2 THEN n + 1 ELSE 2     \* saturating call counter

\* A channel id is a sequence of characters; NoId stands for a local that is
\* not (or no longer) defined.
NoId == <<>>

\* freq is the frequency in the closure of the invocation, callId its local
\* constant (line 139).
NoJoin == [owner |-> 0, at |-> "unborn", role |-> "none", data |-> NoDesc,
           target |-> 0, desc |-> NoDesc, offerWrites |-> 0, answerWrites |-> 0,
           clobbered |-> FALSE, freq |-> 0, callId |-> NoId]
\* srdCalls and closes are history: the setRemoteDescription calls of the
\* document listener and the close() calls.
NoPc == [st |-> "none", sig |-> "stable", local |-> NoDesc, remote |-> NoDesc,
         srdQ |-> <<>>, conn |-> "new", ice |-> "none", cands |-> {},
         srdCalls |-> 0, closes |-> 0]
NoStream == [st |-> "none", stops |-> 0, enabled |-> FALSE]
\* dups is history: whether a notification was delivered to the candidate
\* listener a second time, for an entry the transport knew or did not know.
NoSub == [doc |-> "none", dirty |-> FALSE, unsubs |-> 0, cand |-> "none", seen |-> 0,
          dups |-> "none"]

\* Frequencies and frequency deltas are numbers of hundredths of a MHz.
\* line 51 (src/App.jsx line 56): useState(105.50)
InitialFrequency == 10550

\* ------------------------------------ the store-and-forward component
\* src/App.jsx lines 54-61 and 66: the component after mounting.  queued is
\* the history of audioQueueRef: the messages queueAudio was called with,
\* in order (playback removes them from the ref).  sub is the listener the
\* "Listen for Messages" effect holds (line 105) with the messages it has
\* been notified of.  lastMessageId holds "null", "undefined" or a message.
NoListener == [live |-> FALSE, seen |-> {}]

NoApp == [user |-> FALSE, isOn |-> FALSE, frequency |-> InitialFrequency,
          lastMessageId |-> "null", queued |-> <<>>, sub |-> NoListener]

\* src/App.jsx lines 58 and 63-67: the playback state after mounting.  ctx
\* is audioContextRef.current ("null" or "open"), queue is
\* audioQueueRef.current (message numbers stand for their clips), isPlaying
\* is isPlayingRef.current.  players holds the processQueue invocations that
\* have not finished: the clip each one shifted, its position (awaiting
\* decodeAudioData, source started, or in the 300 ms setTimeout) and what
\* became of the context its source plays on.  micPending: togglePower is
\* suspended at await getUserMedia.
NoAudio == [ctx |-> "null", micPending |-> FALSE, queue |-> <<>>,
            isPlaying |-> FALSE, isReceiving |-> FALSE, players |-> {}]

InitSf ==
  /\ sfApp = [c \in Clients |-> NoApp]
  /\ audio = [c \in Clients |-> NoAudio]
  /\ messages = <<>>
  /\ now = 0

InitSession ==
  /\ user = [c \in Clients |-> TRUE]
  /\ isOn = [c \in Clients |-> FALSE]
  /\ connectionStatus = [c \in Clients |-> "DISCONNECTED"]
  /\ pcCur = [c \in Clients |-> 0]
  /\ localStream = [c \in Clients |-> 0]
  /\ unsubscribeRef = [c \in Clients |-> 0]
  /\ resetPending = [c \in Clients |-> FALSE]
  /\ nJoins = 0
  /\ nResets = 0
  /\ joins = [j \in Joins |-> NoJoin]
  /\ pcs = [j \in Joins |-> NoPc]
  /\ streams = [j \in Joins |-> NoStream]
  /\ subs = [j \in Joins |-> NoSub]
  /\ offerCandidates = <<>>
  /\ answerCandidates = <<>>
  /\ resetEpoch = -1
  /\ resetId = [c \in Clients |-> NoId]
  /\ nTunes = 0 /\ InitSf /\ isTalking = [c \in Clients |-> FALSE]


\* Number.prototype.toFixed(1) takes the number of tenths n for which n / 10
\* is closest to the value, the larger n of two equally close ones.
RoundTenths(x) == (x + 5) \div 10

\* lines 139 and 252: frequency.toFixed(1), for a value of f >= 0 hundredths
DigitChars == <<"0", "1", "2", "3", "4", "5", "6", "7", "8", "9">>
RECURSIVE Digits(_)
Digits(n) == IF n < 10 THEN <<DigitChars[n + 1]>>
             ELSE Append(Digits(n \div 10), DigitChars[(n % 10) + 1])
ToFixed1(f) ==
  Digits(RoundTenths(f) \div 10) \o <<".">> \o <<DigitChars[(RoundTenths(f) % 10) + 1]>>

\* String.prototype.replace with a string pattern: the first occurrence only
ReplaceFirst(str, a, b) ==
  IF \E i \in 1..Len(str) : str[i] = a
    THEN LET k == CHOOSE i \in 1..Len(str) :
                    str[i] = a /\ \A m \in 1..(i - 1) : str[m] # a
         IN [str EXCEPT ![k] = b]
    ELSE str

CallId_NoTenths(f) == <<"f", "r", "e", "q", "_">> \o Digits(f \div 100)

\* lines 139 and 252: `freq_${frequency.toFixed(1).replace('.', '_')}`
CallId(f) == <<"f", "r", "e", "q", "_">> \o ReplaceFirst(ToFixed1(f), ".", "_")

InitTuned == frequency = [c \in Clients |-> InitialFrequency]

\* line 300 (and the range input of line 369): the band and its grid of
\* one-decimal frequencies
FreqMin == 8750
FreqMax == 10800
Band == {f \in FreqMin..FreqMax : f % 10 = 0}

\* lines 365-366: the - and + buttons call adjustFrequency(-0.1) and (0.1)
Deltas == {-10, 10}

\* The components are mounted and signed in; the channel has never been used.
Init ==
  /\ InitSession /\ InitTuned
  /\ channel = NoDoc
  /\ limit = [joins |-> MaxJoins, resets |-> 0, cands |-> 0, tunes |-> 0]

\* ------------------------------------------------- store operations
IsHostBranch_OnAnswer(d) == ~d.exists \/ d.answer = NoDesc

\* line 146: !callDoc.exists() || !callDoc.data().offer
IsHostBranch(d) == ~d.exists \/ d.offer = NoDesc

\* lines 162, 212: user.uid of the invocation (0: a client outside the behaviour)
Uid(j) == IF j = 0 THEN 0 ELSE joins[j].owner

\* line 166: setDoc(callDocRef, { offer }) replaces the whole document
SetDocOffer(d, desc, j) ==
  [exists |-> TRUE, offer |-> desc, hostId |-> Uid(j), offerJoin |-> j,
   answer |-> NoDesc, guestId |-> 0, answerJoin |-> 0]

UpdateDocAnswer_Replace(d, desc, j) ==
  [NoDoc EXCEPT !.exists = TRUE, !.answer = desc, !.guestId = Uid(j), !.answerJoin = j]

\* line 215: updateDoc(callDocRef, { answer }) sets one field of an existing document
UpdateDocAnswer(d, desc, j) ==
  [d EXCEPT !.answer = desc, !.guestId = Uid(j), !.answerJoin = j]

DeleteDoc_AnswerOnly(d) == [d EXCEPT !.answer = NoDesc, !.guestId = 0, !.answerJoin = 0]

\* line 254: deleteDoc(doc(db, 'walkie_channels', callId))
DeleteDoc(d) == NoDoc

\* A write to the document schedules a snapshot for every live document listener.
MarkDirty(S) ==
  [j \in Joins |-> IF S[j].doc = "live" THEN [S[j] EXCEPT !.dirty = TRUE] ELSE S[j]]

\* ------------------------------------------- RTCPeerConnection operations
\* currentRemoteDescription: the remote description of the last completed
\* negotiation; null while an offer/answer exchange is pending.
CurrentRemote(pc) == IF pc.sig = "stable" THEN pc.remote ELSE NoDesc

CanApplyLocal(pc, d) ==
  \/ d.type = "offer" /\ pc.sig = "stable"
  \/ d.type = "answer" /\ pc.sig = "have-remote-offer"

ApplyLocal(pc, d) ==
  [pc EXCEPT !.local = d,
             !.sig = IF d.type = "offer" THEN "have-local-offer" ELSE "stable"]

CanApplyRemote(pc, d) ==
  \/ d.type = "offer" /\ pc.sig = "stable"
  \/ d.type = "answer" /\ pc.sig = "have-local-offer"

ApplyRemote(pc, d) ==
  [pc EXCEPT !.remote = d,
             !.sig = IF d.type = "offer" THEN "have-remote-offer" ELSE "stable"]

Open(p) == p # 0 /\ pcs[p].st = "open"

\* ------------------------------------------------------------ hangUp
\* lines 229-248, as the values it leaves in the refs and objects it touches.
HangUpStreams(c) ==
  IF localStream[c] # 0
    THEN [streams EXCEPT ![localStream[c]] =
             [@ EXCEPT !.st = "ended", !.stops = Inc2(@)]]
    ELSE streams

\* line 237: close() ends the connection: its state reads 'closed', it fires
\* no further event and settles no pending promise
ClosedPc(pc) ==
  [NoPc EXCEPT !.st = "closed", !.sig = "closed", !.conn = "closed",
               !.srdCalls = pc.srdCalls, !.closes = Inc2(pc.closes)]

HangUpPcs_NoClose(P, c) == P

HangUpPcs(P, c) ==
  IF pcCur[c] # 0
    THEN [P EXCEPT ![pcCur[c]] = ClosedPc(@)]
    ELSE P

HangUpSubs(c) ==
  IF unsubscribeRef[c] # 0
    THEN [subs EXCEPT ![unsubscribeRef[c]].doc = "released",
                      ![unsubscribeRef[c]].dirty = FALSE,
                      ![unsubscribeRef[c]].unsubs = Inc2(@)]
    ELSE subs

hangUp(c, P) ==
  /\ streams' = HangUpStreams(c)
  /\ pcs' = HangUpPcs(P, c)
  /\ pcCur' = [pcCur EXCEPT ![c] = 0]
  /\ subs' = HangUpSubs(c)
  /\ unsubscribeRef' = [unsubscribeRef EXCEPT ![c] = 0]
  /\ connectionStatus' = [connectionStatus EXCEPT ![c] = "DISCONNECTED"]

\* Clients run identical code, so the clients are taken into use in the order
\* of their numbers (client c acts only once client c-1 has powered on).
Active(c) == IF c = 1 THEN TRUE ELSE \E j \in Joins : joins[j].owner = c - 1

\* lines 64-68: onAuthStateChanged(auth, setUser)
AuthStateChanged(c) ==
  /\ Active(c) /\ ~user[c]
  /\ user' = [user EXCEPT ![c] = TRUE]
  /\ UNCHANGED <<isOn, connectionStatus, pcCur, localStream, unsubscribeRef,
                 resetPending, nJoins, nResets, joins, pcs, streams, subs, channel,
                 offerCandidates, answerCandidates, resetEpoch, limit, frequency, resetId, nTunes, sfApp, messages, now, isTalking, audio>>

\* ------------------------------------------------------- togglePower
\* lines 264-267: power off
TogglePowerOff(c) ==
  /\ Active(c) /\ isOn[c]
  /\ isOn' = [isOn EXCEPT ![c] = FALSE]
  /\ hangUp(c, pcs)
  /\ UNCHANGED <<user, localStream, resetPending, nJoins, nResets, joins, channel,
                 offerCandidates, answerCandidates, resetEpoch, limit, frequency, resetId, nTunes, sfApp, messages, now, isTalking, audio>>

\* lines 268-270 and 128: power on without an identity, joinFrequency returns
TogglePowerOnNoUser(c) ==
  /\ Active(c) /\ ~isOn[c] /\ ~user[c]
  /\ isOn' = [isOn EXCEPT ![c] = TRUE]
  /\ UNCHANGED <<user, connectionStatus, pcCur, localStream, unsubscribeRef,
                 resetPending, nJoins, nResets, joins, pcs, streams, subs, channel,
                 offerCandidates, answerCandidates, resetEpoch, limit, frequency, resetId, nTunes, sfApp, messages, now, isTalking, audio>>

\* lines 268-270 and 128-133: power on, joinFrequency runs up to
\* await setupAudio() (getUserMedia pending)
TogglePowerOn(c) ==
  /\ Active(c) /\ ~isOn[c] /\ user[c]
  /\ nJoins < limit.joins
  /\ Cardinality({j \in Joins : joins[j].owner = c}) < MaxPowerOns
  /\ isOn' = [isOn EXCEPT ![c] = TRUE]
  /\ nJoins' = nJoins + 1
  /\ joins' = [joins EXCEPT ![nJoins + 1] =
                  [NoJoin EXCEPT !.owner = c, !.at = "mic", !.freq = frequency[c]]]
  /\ connectionStatus' = [connectionStatus EXCEPT ![c] = "TUNING..."]
  /\ UNCHANGED <<user, pcCur, localStream, unsubscribeRef, resetPending,
                 nResets, pcs, streams, subs, channel, offerCandidates,
                 answerCandidates, resetEpoch, limit, frequency, resetId, nTunes, sfApp, messages, now, isTalking, audio>>

\* ----------------------------------------------------- joinFrequency
\* A finished invocation keeps no locals.
Stop(j) == [joins EXCEPT ![j].at = "stopped", ![j].target = 0,
                         ![j].desc = NoDesc, ![j].data = NoDesc,
                         ![j].freq = 0, ![j].callId = NoId]

SetupAudio_Enabled == [st |-> "live", stops |-> 0, enabled |-> TRUE]

\* lines 77-80: the stream getUserMedia resolved with, its audio track
\* disabled
SetupAudio == [st |-> "live", stops |-> 0, enabled |-> FALSE]

\* lines 74-82 and 134-144: getUserMedia resolves, the stream is stored, the
\* peer connection is created and stored, getDoc is issued
MicGranted(j) ==
  /\ joins[j].at = "mic"
  /\ LET c == joins[j].owner IN
       /\ localStream' = [localStream EXCEPT ![c] = j]
       /\ streams' = [streams EXCEPT ![j] = SetupAudio]
       /\ pcCur' = [pcCur EXCEPT ![c] = j]
       /\ pcs' = [pcs EXCEPT ![j] = [NoPc EXCEPT !.st = "open"]]
       /\ joins' = [joins EXCEPT ![j].at = "getDoc", ![j].callId = CallId(joins[j].freq)]
  /\ UNCHANGED <<user, isOn, connectionStatus, unsubscribeRef, resetPending,
                 nJoins, nResets, subs, channel, offerCandidates, answerCandidates,
                 resetEpoch, limit, frequency, resetId, nTunes, sfApp, messages, now, isTalking, audio>>

\* lines 83-87 and 134: getUserMedia rejects, setupAudio returns null
MicDenied(j) ==
  /\ joins[j].at = "mic"
  /\ joins' = Stop(j)
  /\ UNCHANGED <<user, isOn, connectionStatus, pcCur, localStream,
                 unsubscribeRef, resetPending, nJoins, nResets, pcs, streams, subs,
                 channel, offerCandidates, answerCandidates, resetEpoch, limit, frequency, resetId, nTunes, sfApp, messages, now, isTalking, audio>>

\* lines 144-156: getDoc resolves with no offer; host branch up to
\* await pc.current.createOffer()
GetDocHost(j) ==
  /\ joins[j].at = "getDoc"
  /\ IsHostBranch(channel)
  /\ LET p == pcCur[joins[j].owner] IN
       IF p = 0
         THEN /\ joins' = [Stop(j) EXCEPT ![j].role = "host"]
              /\ pcs' = pcs
         ELSE /\ joins' = [joins EXCEPT ![j].at = "describe",
                                        ![j].role = "host", ![j].target = p]
              /\ pcs' = [pcs EXCEPT ![p].ice = "offer"]
  /\ UNCHANGED <<user, isOn, connectionStatus, pcCur, localStream,
                 unsubscribeRef, resetPending, nJoins, nResets, streams, subs,
                 channel, offerCandidates, answerCandidates, resetEpoch, limit, frequency, resetId, nTunes, sfApp, messages, now, isTalking, audio>>

\* lines 144-146 and 189-204: getDoc resolves with an offer; guest branch up
\* to await pc.current.setRemoteDescription(data.offer)
GetDocGuest(j) ==
  /\ joins[j].at = "getDoc"
  /\ ~IsHostBranch(channel)
  /\ connectionStatus' = [connectionStatus EXCEPT ![joins[j].owner] = "CONNECTING..."]
  /\ LET p == pcCur[joins[j].owner] IN
       IF p = 0
         THEN /\ joins' = [Stop(j) EXCEPT ![j].role = "guest"]
              /\ pcs' = pcs
         ELSE /\ joins' = [joins EXCEPT ![j].at = "describe", ![j].role = "guest",
                                        ![j].data = channel.offer, ![j].target = p]
              /\ pcs' = [pcs EXCEPT ![p].ice = "answer"]
  /\ UNCHANGED <<user, isOn, pcCur, localStream, unsubscribeRef, resetPending,
                 nJoins, nResets, streams, subs, channel, offerCandidates,
                 answerCandidates, resetEpoch, limit, frequency, resetId, nTunes, sfApp, messages, now, isTalking, audio>>

HostDescribed_PublishFirst(j) ==
  /\ joins[j].at = "describe" /\ joins[j].role = "host"
  /\ Open(joins[j].target)
  /\ channel' = SetDocOffer(channel, OfferDesc(joins[j].target), j)
  /\ subs' = MarkDirty(subs)
  /\ joins' = [joins EXCEPT ![j].at = "write", ![j].desc = OfferDesc(joins[j].target),
                            ![j].offerWrites = Inc2(@)]
  /\ UNCHANGED <<user, isOn, connectionStatus, pcCur, localStream,
                 unsubscribeRef, resetPending, nJoins, nResets, streams, pcs,
                 offerCandidates, answerCandidates, resetEpoch, limit, frequency, resetId, nTunes, sfApp, messages, now, isTalking, audio>>

\* lines 156-166: createOffer resolves on the connection it was called on,
\* pc.current.setLocalDescription(offer) is issued and resolves, and setDoc
\* writes { offer }.  The two description promises settle back to back; a
\* promise of a closed connection never settles, and a null pc.current or a
\* rejected setLocalDescription ends the invocation.
HostDescribed(j) ==
  /\ joins[j].at = "describe" /\ joins[j].role = "host"
  /\ Open(joins[j].target)
  /\ LET t == pcCur[joins[j].owner]
         d == OfferDesc(joins[j].target) IN
       IF t # 0 /\ CanApplyLocal(pcs[t], d)
         THEN /\ pcs' = [pcs EXCEPT ![t] = ApplyLocal(@, d)]
              /\ channel' = SetDocOffer(channel, d, j)
              /\ subs' = MarkDirty(subs)
              /\ joins' = [k \in Joins |->
                    IF k = j
                      THEN [joins[j] EXCEPT !.at = "write", !.desc = d,
                                            !.target = t,
                                            !.offerWrites = Inc2(@)]
                    ELSE IF channel.exists /\ channel.offerJoin = k
                      THEN [joins[k] EXCEPT !.clobbered = TRUE]
                    ELSE joins[k]]
         ELSE /\ joins' = Stop(j)
              /\ UNCHANGED <<pcs, channel, subs>>
  /\ UNCHANGED <<user, isOn, connectionStatus, pcCur, localStream,
                 unsubscribeRef, resetPending, nJoins, nResets, streams,
                 offerCandidates, answerCandidates, resetEpoch, limit, frequency, resetId, nTunes, sfApp, messages, now, isTalking, audio>>

\* lines 166-187: setDoc resolves; the document listener and the
\* answerCandidates listener are registered
SetDocDone(j) ==
  /\ joins[j].at = "write" /\ joins[j].role = "host"
  /\ LET c == joins[j].owner IN
       /\ connectionStatus' = [connectionStatus EXCEPT ![c] = "WAITING FOR PEER..."]
       /\ unsubscribeRef' = [unsubscribeRef EXCEPT ![c] = j]
       /\ subs' = [subs EXCEPT ![j] = [NoSub EXCEPT !.doc = "live", !.dirty = TRUE,
                                                    !.cand = "answer"]]
       /\ joins' = [joins EXCEPT ![j].at = "done", ![j].target = 0,
                                 ![j].desc = NoDesc, ![j].data = NoDesc,
                                 ![j].freq = 0, ![j].callId = NoId]
  /\ UNCHANGED <<user, isOn, pcCur, localStream, resetPending, nJoins, nResets,
                 pcs, streams, channel, offerCandidates, answerCandidates,
                 resetEpoch, limit, frequency, resetId, nTunes, sfApp, messages, now, isTalking, audio>>

\* The guest's three description calls (lines 204-207) on pcs P: the offer is
\* applied to the connection setRemoteDescription was called on (r), then
\* createAnswer and setLocalDescription run on pc.current (t).
GuestRemote(P, r, offer) ==
  IF CanApplyRemote(P[r], offer) THEN [P EXCEPT ![r] = ApplyRemote(@, offer)] ELSE P

GuestAnswer(P, t) == AnswerDesc(t, P[t].remote.by)

GuestCanAnswer(P, r, t, offer) ==
  /\ CanApplyRemote(P[r], offer)
  /\ t # 0
  /\ GuestRemote(P, r, offer)[t].sig = "have-remote-offer"

\* lines 204-215: setRemoteDescription(offer), createAnswer and
\* setLocalDescription(answer) resolve back to back, and updateDoc writes
\* { answer } (and fails when the document does not exist)
GuestDescribed(j) ==
  /\ joins[j].at = "describe" /\ joins[j].role = "guest"
  /\ Open(joins[j].target)
  /\ LET r == joins[j].target
         t == pcCur[joins[j].owner]
         P == GuestRemote(pcs, r, joins[j].data) IN
       IF GuestCanAnswer(pcs, r, t, joins[j].data)
         THEN /\ pcs' = [P EXCEPT ![t] = ApplyLocal(@, GuestAnswer(P, t))]
              /\ IF channel.exists
                   THEN /\ channel' = UpdateDocAnswer(channel, GuestAnswer(P, t), j)
                        /\ subs' = MarkDirty(subs)
                        /\ joins' = [joins EXCEPT ![j].at = "write",
                                                  ![j].desc = GuestAnswer(P, t),
                                                  ![j].target = t,
                                                  ![j].answerWrites = Inc2(@)]
                   ELSE /\ joins' = Stop(j)
                        /\ UNCHANGED <<channel, subs>>
         ELSE /\ joins' = Stop(j)
              /\ pcs' = P
              /\ UNCHANGED <<channel, subs>>
  /\ UNCHANGED <<user, isOn, connectionStatus, pcCur, localStream,
                 unsubscribeRef, resetPending, nJoins, nResets, streams,
                 offerCandidates, answerCandidates, resetEpoch, limit, frequency, resetId, nTunes, sfApp, messages, now, isTalking, audio>>

\* lines 215-225: updateDoc resolves; the offerCandidates listener is registered
UpdateDocDone(j) ==
  /\ joins[j].at = "write" /\ joins[j].role = "guest"
  /\ subs' = [subs EXCEPT ![j] = [NoSub EXCEPT !.cand = "offer"]]
  /\ joins' = [joins EXCEPT ![j].at = "done", ![j].target = 0,
                                 ![j].desc = NoDesc, ![j].data = NoDesc,
                                 ![j].freq = 0, ![j].callId = NoId]
  /\ UNCHANGED <<user, isOn, connectionStatus, pcCur, localStream,
                 unsubscribeRef, resetPending, nJoins, nResets, pcs, streams,
                 channel, offerCandidates, answerCandidates, resetEpoch, limit, frequency, resetId, nTunes, sfApp, messages, now, isTalking, audio>>

\* ------------------------------------------------------ resetChannel
\* lines 251-254: resetChannel up to await deleteDoc(...); the delete reaches
\* the store
ResetChannel(c) ==
  /\ Active(c) /\ ~resetPending[c]
  /\ nResets < limit.resets
  /\ nResets' = nResets + 1
  /\ channel' = DeleteDoc(channel)
  /\ subs' = IF channel.exists THEN MarkDirty(subs) ELSE subs
  /\ resetPending' = [resetPending EXCEPT ![c] = TRUE]
  /\ resetEpoch' = IF channel.exists /\ channel.answer # NoDesc
                     THEN nJoins ELSE resetEpoch
  /\ resetId' = [resetId EXCEPT ![c] = CallId(frequency[c])]
  /\ UNCHANGED <<user, isOn, connectionStatus, pcCur, localStream,
                 unsubscribeRef, nJoins, joins, pcs, streams,
                 offerCandidates, answerCandidates, limit, frequency, nTunes, sfApp, messages, now, isTalking, audio>>

\* lines 255-256: deleteDoc resolves; hangUp() and the alert
ResetResume(c) ==
  /\ resetPending[c]
  /\ resetPending' = [resetPending EXCEPT ![c] = FALSE]
  /\ resetId' = [resetId EXCEPT ![c] = NoId]
  /\ hangUp(c, pcs)
  /\ UNCHANGED <<user, isOn, localStream, nJoins, nResets, joins, channel,
                 offerCandidates, answerCandidates, resetEpoch, limit, frequency, nTunes, sfApp, messages, now, isTalking, audio>>

\* ------------------------------------------- onconnectionstatechange
\* The transport connects a peer connection once both descriptions are
\* applied on it and on the open connection holding the mirrored pair.
Connectable(p) ==
  /\ Open(p) /\ pcs[p].sig = "stable"
  /\ pcs[p].local # NoDesc /\ pcs[p].remote # NoDesc
  /\ \E q \in Joins \ {p} :
       /\ Open(q) /\ pcs[q].sig = "stable"
       /\ pcs[q].local = pcs[p].remote /\ pcs[q].remote = pcs[p].local

\* lines 112-115: connectionState becomes 'connected'
TransportConnected(p) ==
  /\ Connectable(p) /\ pcs[p].conn # "connected"
  /\ pcs' = [pcs EXCEPT ![p].conn = "connected"]
  /\ connectionStatus' = [connectionStatus EXCEPT ![joins[p].owner] = "CONNECTED"]
  /\ UNCHANGED <<user, isOn, pcCur, localStream, unsubscribeRef, resetPending,
                 nJoins, nResets, joins, streams, subs, channel, offerCandidates,
                 answerCandidates, resetEpoch, limit, frequency, resetId, nTunes, sfApp, messages, now, isTalking, audio>>

\* lines 116-119: connectionState becomes 'disconnected' or 'failed'
TransportLost(p, s) ==
  /\ Open(p) /\ (pcs[p].local # NoDesc \/ pcs[p].remote # NoDesc)
  /\ pcs[p].conn \notin {s, "failed"}
  /\ hangUp(joins[p].owner, [pcs EXCEPT ![p].conn = s])
  /\ UNCHANGED <<user, isOn, localStream, resetPending, nJoins, nResets, joins, channel,
                 offerCandidates, answerCandidates, resetEpoch, limit, frequency, resetId, nTunes, sfApp, messages, now, isTalking, audio>>

\* ------------------------------------------------- snapshot listeners
AnswerGuard_NoCheck(pc, d) == d.exists /\ d.answer # NoDesc

\* line 172: !pc.current.currentRemoteDescription && data?.answer
AnswerGuard(pc, d) == CurrentRemote(pc) = NoDesc /\ d.exists /\ d.answer # NoDesc

\* lines 170-176: the document listener of join j fires and issues
\* pc.current.setRemoteDescription(answer) (not awaited)
DocSnapshotApply(j) ==
  /\ subs[j].doc = "live" /\ subs[j].dirty
  /\ pcCur[joins[j].owner] # 0
  /\ AnswerGuard(pcs[pcCur[joins[j].owner]], channel)
  /\ subs' = [subs EXCEPT ![j].dirty = FALSE]
  /\ pcs' = [pcs EXCEPT ![pcCur[joins[j].owner]].srdQ = Append(@, channel.answer),
                        ![pcCur[joins[j].owner]].srdCalls = Inc2(@)]
  /\ connectionStatus' = [connectionStatus EXCEPT ![joins[j].owner] = "CONNECTING..."]
  /\ UNCHANGED <<user, isOn, pcCur, localStream, unsubscribeRef, resetPending,
                 nJoins, nResets, joins, streams, channel, offerCandidates,
                 answerCandidates, resetEpoch, limit, frequency, resetId, nTunes, sfApp, messages, now, isTalking, audio>>

\* lines 170-172: the document listener fires and the guard is false (or
\* pc.current is null and the callback throws)
DocSnapshotIgnore(j) ==
  /\ subs[j].doc = "live" /\ subs[j].dirty
  /\ IF pcCur[joins[j].owner] = 0 THEN TRUE
     ELSE ~AnswerGuard(pcs[pcCur[joins[j].owner]], channel)
  /\ subs' = [subs EXCEPT ![j].dirty = FALSE]
  /\ UNCHANGED <<user, isOn, connectionStatus, pcCur, localStream,
                 unsubscribeRef, resetPending, nJoins, nResets, joins, pcs, streams,
                 channel, offerCandidates, answerCandidates, resetEpoch, limit, frequency, resetId, nTunes, sfApp, messages, now, isTalking, audio>>

\* line 174: a setRemoteDescription issued by the document listener completes
\* (an answer outside have-local-offer is rejected)
SetRemoteDone(p) ==
  /\ Open(p) /\ pcs[p].srdQ # <<>>
  /\ pcs' = [pcs EXCEPT ![p] =
       [(IF CanApplyRemote(@, Head(@.srdQ)) THEN ApplyRemote(@, Head(@.srdQ)) ELSE @)
          EXCEPT !.srdQ = Tail(@)]]
  /\ UNCHANGED <<user, isOn, connectionStatus, pcCur, localStream,
                 unsubscribeRef, resetPending, nJoins, nResets, joins, streams, subs,
                 channel, offerCandidates, answerCandidates, resetEpoch, limit, frequency, resetId, nTunes, sfApp, messages, now, isTalking, audio>>

NumCands == Len(offerCandidates) + Len(answerCandidates)

\* lines 150-154 and 198-202: onicecandidate appends the candidate to the
\* sub-collection the handler installed on that connection names
IceCandidate(p) ==
  /\ Open(p) /\ pcs[p].local # NoDesc /\ pcs[p].ice # "none"
  /\ NumCands < limit.cands
  /\ LET cand == [from |-> p, n |-> NumCands + 1] IN
       IF pcs[p].ice = "offer"
         THEN /\ offerCandidates' = Append(offerCandidates, cand)
              /\ answerCandidates' = answerCandidates
         ELSE /\ answerCandidates' = Append(answerCandidates, cand)
              /\ offerCandidates' = offerCandidates
  /\ UNCHANGED <<user, isOn, connectionStatus, pcCur, localStream,
                 unsubscribeRef, resetPending, nJoins, nResets, joins, pcs, streams,
                 subs, channel, resetEpoch, limit, frequency, resetId, nTunes, sfApp, messages, now, isTalking, audio>>

Watched(j) == IF subs[j].cand = "offer" THEN offerCandidates ELSE answerCandidates

AddIceCandidate_Toggle(P, p, x) ==
  IF p # 0 /\ P[p].remote # NoDesc
    THEN [P EXCEPT ![p].cands = IF x \in @ THEN @ \ {x} ELSE @ \cup {x}]
    ELSE P

\* lines 184 and 222: pc.current.addIceCandidate(candidate).  The callback
\* throws when pc.current is null and the call is rejected without a remote
\* description; the ICE agent keeps its remote candidates as a set, a
\* candidate it already has is discarded.
AddIceCandidate(P, p, x) ==
  IF p # 0 /\ P[p].remote # NoDesc
    THEN [P EXCEPT ![p].cands = @ \cup {x}]
    ELSE P

\* lines 180-186 and 218-224: a candidate listener receives the next 'added'
\* change and relays it to pc.current
CandSnapshot(j) ==
  /\ subs[j].cand # "none" /\ subs[j].seen < Len(Watched(j))
  /\ subs' = [subs EXCEPT ![j].seen = @ + 1]
  /\ pcs' = AddIceCandidate(pcs, pcCur[joins[j].owner], Watched(j)[subs[j].seen + 1])
  /\ UNCHANGED <<user, isOn, connectionStatus, pcCur, localStream,
                 unsubscribeRef, resetPending, nJoins, nResets, joins, streams, channel,
                 offerCandidates, answerCandidates, resetEpoch, limit, frequency, resetId, nTunes, sfApp, messages, now, isTalking, audio>>

Knows(p, x) == p # 0 /\ x \in pcs[p].cands

\* lines 180-186 and 218-224: the store delivers an 'added' change for entry
\* i of the collection to the listener once more
CandRedelivered(j, i) ==
  /\ subs[j].cand # "none" /\ i <= subs[j].seen /\ subs[j].dups = "none"
  /\ LET p == pcCur[joins[j].owner]
         x == Watched(j)[i] IN
       /\ subs' = [subs EXCEPT ![j].dups = IF Knows(p, x) THEN "known" ELSE "unknown"]
       /\ pcs' = AddIceCandidate(pcs, p, x)
  /\ UNCHANGED <<user, isOn, connectionStatus, pcCur, localStream,
                 unsubscribeRef, resetPending, nJoins, nResets, joins, streams, channel,
                 offerCandidates, answerCandidates, resetEpoch, limit, frequency, resetId, nTunes, sfApp, messages, now, isTalking, audio>>

\* ------------------------------------------------------ specification
Next ==
  \/ \E c \in Clients : TogglePowerOff(c)
  \/ \E c \in Clients : TogglePowerOn(c)
  \/ \E j \in Joins : MicGranted(j)
  \/ \E j \in Joins : MicDenied(j)
  \/ \E j \in Joins : GetDocHost(j)
  \/ \E j \in Joins : GetDocGuest(j)
  \/ \E j \in Joins : HostDescribed(j)
  \/ \E j \in Joins : SetDocDone(j)
  \/ \E j \in Joins : GuestDescribed(j)
  \/ \E j \in Joins : UpdateDocDone(j)
  \/ \E p \in Joins : TransportConnected(p)
  \/ \E p \in Joins : \E s \in {"disconnected", "failed"} : TransportLost(p, s)
  \/ \E j \in Joins : DocSnapshotApply(j)
  \/ \E j \in Joins : DocSnapshotIgnore(j)
  \/ \E p \in Joins : SetRemoteDone(p)

Spec == Init /\ [][Next]_vars

\* The channel document outlives the sessions that wrote it (only
\* resetChannel deletes it): a client may find the offer, or the offer and
\* the answer, of sessions whose peers are gone.  Their connections are not
\* part of the behaviour and carry the number 0.
StaleOffer == SetDocOffer(NoDoc, OfferDesc(0), 0)
StaleOccupied == UpdateDocAnswer(StaleOffer, AnswerDesc(0, 0), 0)

InitReset ==
  /\ InitSession /\ InitTuned
  /\ channel \in {NoDoc, StaleOffer, StaleOccupied}
  /\ limit = [joins |-> MaxJoinsReset, resets |-> MaxResets, cands |-> 0, tunes |-> 0]

NextReset ==
  \/ Next
  \/ \E c \in Clients : ResetChannel(c)
  \/ \E c \in Clients : ResetResume(c)

SpecReset == InitReset /\ [][NextReset]_vars

InitIce ==
  /\ InitSession /\ InitTuned
  /\ channel = NoDoc
  /\ limit = [joins |-> MaxJoinsIce, resets |-> 0, cands |-> MaxCands, tunes |-> 0]

NextIce ==
  \/ Next
  \/ \E p \in Joins : IceCandidate(p)
  \/ \E j \in Joins : CandSnapshot(j)

SpecIce == InitIce /\ [][NextIce]_vars

\* The components are mounted but anonymous sign-in has not completed yet
\* (lines 49 and 64-67: user starts as null).
InitAuth ==
  /\ user = [c \in Clients |-> FALSE]
  /\ isOn = [c \in Clients |-> FALSE]
  /\ connectionStatus = [c \in Clients |-> "DISCONNECTED"]
  /\ pcCur = [c \in Clients |-> 0]
  /\ localStream = [c \in Clients |-> 0]
  /\ unsubscribeRef = [c \in Clients |-> 0]
  /\ resetPending = [c \in Clients |-> FALSE]
  /\ nJoins = 0 /\ nResets = 0
  /\ joins = [j \in Joins |-> NoJoin]
  /\ pcs = [j \in Joins |-> NoPc]
  /\ streams = [j \in Joins |-> NoStream]
  /\ subs = [j \in Joins |-> NoSub]
  /\ offerCandidates = <<>> /\ answerCandidates = <<>>
  /\ resetEpoch = -1
  /\ resetId = [c \in Clients |-> NoId]
  /\ nTunes = 0 /\ InitSf /\ isTalking = [c \in Clients |-> FALSE] /\ InitTuned
  /\ channel = NoDoc
  /\ limit = [joins |-> MaxJoinsAuth, resets |-> 0, cands |-> 0, tunes |-> 0]

NextAuth ==
  \/ Next
  \/ \E c \in Clients : AuthStateChanged(c)
  \/ \E c \in Clients : TogglePowerOnNoUser(c)

SpecAuth == InitAuth /\ [][NextAuth]_vars

\* lines 112-120: connectionState becomes a value the handler has no branch
\* for ('connecting', when the transport starts its checks): the handler
\* logs it and returns
TransportConnecting(p) ==
  /\ Open(p) /\ (pcs[p].local # NoDesc \/ pcs[p].remote # NoDesc)
  /\ pcs[p].conn = "new"
  /\ pcs' = [pcs EXCEPT ![p].conn = "connecting"]
  /\ UNCHANGED <<user, isOn, connectionStatus, pcCur, localStream, unsubscribeRef,
                 resetPending, nJoins, nResets, joins, streams, subs, channel,
                 offerCandidates, answerCandidates, resetEpoch, limit, frequency, resetId, nTunes, sfApp, messages, now, isTalking, audio>>

InitConn ==
  /\ InitSession /\ InitTuned
  /\ channel = NoDoc
  /\ limit = [joins |-> MaxJoinsConn, resets |-> 0, cands |-> 0, tunes |-> 0]

NextConn ==
  \/ Next
  \/ \E p \in Joins : TransportConnecting(p)

SpecConn == InitConn /\ [][NextConn]_vars

\* The store may repeat 'added' notifications.
NextDup ==
  \/ NextIce
  \/ \E j \in Joins : \E i \in 1..MaxCands : CandRedelivered(j, i)

SpecDup == InitIce /\ [][NextDup]_vars

\* --------------------------------------------------- adjustFrequency
\* lines 293-304, with the session idle or the confirm accepted (a declined
\* confirm returns with nothing changed). toFixed(1) and parseFloat keep the
\* sum on the grid of tenths; line 300 clamps it to the band.
Clamp_Identity(f) == f

\* line 300: newFreq < 87.5 ? 87.5 : newFreq > 108.0 ? 108.0 : newFreq
Clamp(f) == IF f < FreqMin THEN FreqMin ELSE IF f > FreqMax THEN FreqMax ELSE f

\* line 299: parseFloat(x.toFixed(1)), the one-decimal number nearest to x
Quantize(x) == RoundTenths(x) * 10

\* lines 298-301: the updater passed to setFrequency
NewFreq(prev, delta) == Clamp(Quantize(prev + delta))

AdjustFrequency(c, delta) ==
  /\ Active(c) /\ isOn[c]
  /\ nTunes < limit.tunes
  /\ nTunes' = nTunes + 1
  /\ IF connectionStatus[c] # "DISCONNECTED"
       THEN hangUp(c, pcs)
       ELSE UNCHANGED <<streams, pcs, pcCur, subs, unsubscribeRef, connectionStatus>>
  /\ frequency' = [frequency EXCEPT ![c] = NewFreq(@, delta)]
  /\ isOn' = [isOn EXCEPT ![c] = FALSE]
  /\ UNCHANGED <<user, localStream, resetPending, nJoins, nResets, joins, channel,
                 offerCandidates, answerCandidates, resetEpoch, limit, resetId,
                 sfApp, messages, now, isTalking, audio>>

\* lines 294-295: the session is not idle and the user declines the confirm
AdjustFrequencyDeclined(c, delta) ==
  /\ Active(c) /\ isOn[c]
  /\ connectionStatus[c] # "DISCONNECTED"
  /\ nTunes < limit.tunes
  /\ nTunes' = nTunes + 1
  /\ UNCHANGED <<user, isOn, connectionStatus, pcCur, localStream, unsubscribeRef,
                 resetPending, nJoins, nResets, joins, pcs, streams, subs, channel,
                 offerCandidates, answerCandidates, resetEpoch, limit, frequency,
                 resetId, sfApp, messages, now, isTalking, audio>>

\* The sessions of one channel under frequency changes.  The model keeps
\* one channel document, so the clients are tuned to the lowest frequency of
\* the band and press the - button, which line 300 clamps: no client ever
\* joins a second channel.
InitTune ==
  /\ InitSession
  /\ frequency = [c \in Clients |-> FreqMin]
  /\ channel = NoDoc
  /\ limit = [joins |-> MaxJoinsTune, resets |-> 0, cands |-> 0, tunes |-> MaxTunesTune]

NextTune ==
  \/ Next
  \/ \E c \in Clients : AdjustFrequency(c, -10)
  \/ \E c \in Clients : AdjustFrequencyDeclined(c, -10)

SpecTune == InitTune /\ [][NextTune]_vars

\* Clients tuned anywhere in the band, up to the point where an invocation
\* has computed its channel id (the model keeps one channel document, so the
\* steps that read or write it are left to the other specifications).
InitResolve ==
  /\ InitSession
  /\ \E f \in Band : \E g \in {InitialFrequency, f} :
       frequency = [c \in Clients |-> IF c = 1 THEN f ELSE g]
  /\ channel = NoDoc
  /\ limit = [joins |-> MaxJoinsResolve, resets |-> MaxResets, cands |-> 0,
              tunes |-> MaxTunes]

NextResolve ==
  \/ \E c \in Clients : TogglePowerOff(c) \/ TogglePowerOn(c) \/ ResetChannel(c)
                        \/ ResetResume(c)
  \/ \E c \in Clients, delta \in Deltas : AdjustFrequency(c, delta)
  \/ \E j \in Joins : MicGranted(j) \/ MicDenied(j)

SpecResolve == InitResolve /\ [][NextResolve]_vars

\* The candidate sub-collections outlive the sessions too: nothing deletes
\* their entries (hangUp deletes nothing, resetChannel deletes only the
\* channel document, line 254).  The channel has been used by an earlier pair
\* of connections (number 0) and reset: the document is absent and each
\* collection still holds a candidate of that pair.
StaleCandidate(n) == [from |-> 0, n |-> n]

InitStale ==
  /\ user = [c \in Clients |-> TRUE]
  /\ isOn = [c \in Clients |-> FALSE]
  /\ connectionStatus = [c \in Clients |-> "DISCONNECTED"]
  /\ pcCur = [c \in Clients |-> 0]
  /\ localStream = [c \in Clients |-> 0]
  /\ unsubscribeRef = [c \in Clients |-> 0]
  /\ resetPending = [c \in Clients |-> FALSE]
  /\ nJoins = 0
  /\ nResets = 0
  /\ joins = [j \in Joins |-> NoJoin]
  /\ pcs = [j \in Joins |-> NoPc]
  /\ streams = [j \in Joins |-> NoStream]
  /\ subs = [j \in Joins |-> NoSub]
  /\ offerCandidates = <<StaleCandidate(1)>>
  /\ answerCandidates = <<StaleCandidate(2)>>
  /\ resetEpoch = -1
  /\ resetId = [c \in Clients |-> NoId]
  /\ nTunes = 0 /\ InitSf /\ isTalking = [c \in Clients |-> FALSE]
  /\ InitTuned
  /\ channel = NoDoc
  /\ limit = [joins |-> MaxJoinsStale, resets |-> 0, cands |-> MaxCandsStale,
              tunes |-> 0]

SpecStale == InitStale /\ [][NextIce]_vars

\* ------------------------------------------------------ push to talk
\* lines 275-282 and 387: startTalk, from the talk button, which is disabled
\* unless the power is on and the status is CONNECTED
StartTalk(c) ==
  /\ isOn[c] /\ connectionStatus[c] = "CONNECTED" /\ ~isTalking[c]
  /\ isTalking' = [isTalking EXCEPT ![c] = TRUE]
  /\ streams' = IF localStream[c] # 0
                  THEN [streams EXCEPT ![localStream[c]].enabled = TRUE]
                  ELSE streams
  /\ UNCHANGED <<user, isOn, connectionStatus, pcCur, localStream, unsubscribeRef,
                 resetPending, nJoins, nResets, joins, pcs, subs, channel,
                 offerCandidates, answerCandidates, resetEpoch, limit, frequency,
                 resetId, nTunes, sfApp, messages, now, audio>>

\* lines 284-291: stopTalk, when the button is released or left.  With the
\* power off it returns at line 286 with nothing changed; a button that has
\* become disabled may deliver no release event at all.
StopTalk(c) ==
  /\ isOn[c] /\ isTalking[c]
  /\ isTalking' = [isTalking EXCEPT ![c] = FALSE]
  /\ streams' = IF localStream[c] # 0
                  THEN [streams EXCEPT ![localStream[c]].enabled = FALSE]
                  ELSE streams
  /\ UNCHANGED <<user, isOn, connectionStatus, pcCur, localStream, unsubscribeRef,
                 resetPending, nJoins, nResets, joins, pcs, subs, channel,
                 offerCandidates, answerCandidates, resetEpoch, limit, frequency,
                 resetId, nTunes, sfApp, messages, now, audio>>

InitTalk ==
  /\ InitSession /\ InitTuned
  /\ channel = NoDoc
  /\ limit = [joins |-> MaxJoinsTalk, resets |-> 0, cands |-> 0, tunes |-> 0]

NextTalk ==
  \/ Next
  \/ \E c \in Clients : StartTalk(c)
  \/ \E c \in Clients : StopTalk(c)

SpecTalk == InitTalk /\ [][NextTalk]_vars

\* ------------------------------ store-and-forward: power and frequency
\* src/App.jsx lines 100-122: the "Listen for Messages" effect.  It runs
\* after every render in which user, isOn, frequency or lastMessageId
\* changed: the previous listener is released and, when the user is signed
\* in and the power is on, a new one is registered, which is then notified
\* of every message of the collection.
Listen(app) ==
  [app EXCEPT !.sub = IF app.user /\ app.isOn THEN [live |-> TRUE, seen |-> {}]
                      ELSE NoListener]

\* src/App.jsx lines 69-73: onAuthStateChanged(auth, setUser)
SfAuthStateChanged(c) ==
  /\ ~sfApp[c].user
  /\ sfApp' = [sfApp EXCEPT ![c] = Listen([@ EXCEPT !.user = TRUE])]
  /\ UNCHANGED <<user, isOn, connectionStatus, pcCur, localStream, unsubscribeRef,
                 resetPending, nJoins, nResets, joins, pcs, streams, subs, channel,
                 offerCandidates, answerCandidates, resetEpoch, limit, frequency,
                 resetId, nTunes, messages, now, isTalking, audio>>

\* ------------------------------------- store-and-forward: the playback
ProcessQueue_NoGuard(a) ==
  IF a.queue = <<>> \/ a.ctx = "null" THEN a
  ELSE [a EXCEPT !.isPlaying = TRUE, !.isReceiving = TRUE,
                 !.queue = Tail(@),
                 !.players = @ \cup {[clip |-> Head(a.queue), at |-> "decode",
                                      ctx |-> "none"]}]

\* src/App.jsx lines 130-139: processQueue up to its await.  It returns at
\* once while a clip is in progress, the queue is empty or there is no
\* audio context; otherwise it sets the flags, shifts the first clip and
\* suspends at decodeAudioData.
ProcessQueue(a) ==
  IF a.isPlaying \/ a.queue = <<>> \/ a.ctx = "null" THEN a
  ELSE [a EXCEPT !.isPlaying = TRUE, !.isReceiving = TRUE,
                 !.queue = Tail(@),
                 !.players = @ \cup {[clip |-> Head(a.queue), at |-> "decode",
                                      ctx |-> "none"]}]

\* src/App.jsx lines 125-128: queueAudio, for each of the clips in turn
RECURSIVE QueueAudio(_, _)
QueueAudio(a, clips) ==
  IF clips = <<>> THEN a
  ELSE QueueAudio(ProcessQueue([a EXCEPT !.queue = Append(@, Head(clips))]),
                  Tail(clips))

\* src/App.jsx lines 160-164: the catch block of processQueue invocation p
Catch(a, p) ==
  ProcessQueue([a EXCEPT !.players = @ \ {p}, !.isPlaying = FALSE,
                         !.isReceiving = FALSE])

\* src/App.jsx lines 81-84: audioContextRef.current.close() and the ref set
\* to null.  The sources playing on the closed context fall silent.
CloseContext(a) ==
  IF a.ctx = "null" THEN a
  ELSE [a EXCEPT !.ctx = "null",
                 !.players = {IF p.at = "playing" /\ p.ctx = "current"
                                THEN [p EXCEPT !.ctx = "closed"] ELSE p : p \in @}]

\* src/App.jsx lines 87-88: audioContextRef.current = new AudioContext().
\* A context the ref still held is dropped without being closed.
NewContext(a) ==
  [a EXCEPT !.ctx = "open",
            !.players = {IF p.at = "playing" /\ p.ctx = "current"
                           THEN [p EXCEPT !.ctx = "dropped"] ELSE p : p \in @}]

\* src/App.jsx lines 77-89: togglePower up to its end (power is on:
\* lines 78-84) or up to await getUserMedia (power is off: lines 86-89).  A second
\* press while the permission request is open is not modelled.
SfTogglePower(c) ==
  /\ ~audio[c].micPending
  /\ IF sfApp[c].isOn
       THEN /\ sfApp' = [sfApp EXCEPT ![c] = Listen([@ EXCEPT !.isOn = FALSE])]
            /\ audio' = [audio EXCEPT ![c] = CloseContext(@)]
       ELSE /\ audio' = [audio EXCEPT ![c] = [NewContext(@) EXCEPT !.micPending = TRUE]]
            /\ UNCHANGED sfApp
  /\ UNCHANGED <<user, isOn, connectionStatus, pcCur, localStream, unsubscribeRef,
                 resetPending, nJoins, nResets, joins, pcs, streams, subs, channel,
                 offerCandidates, answerCandidates, resetEpoch, limit, frequency,
                 resetId, nTunes, messages, now, isTalking>>

\* src/App.jsx lines 89-95: getUserMedia settles.  Granted: setIsOn(true);
\* denied: the catch block, the power stays off and the new context stays
\* in the ref.
SfMicResolved(c, granted) ==
  /\ audio[c].micPending
  /\ audio' = [audio EXCEPT ![c].micPending = FALSE]
  /\ sfApp' = IF granted THEN [sfApp EXCEPT ![c] = Listen([@ EXCEPT !.isOn = TRUE])]
              ELSE sfApp
  /\ UNCHANGED <<user, isOn, connectionStatus, pcCur, localStream, unsubscribeRef,
                 resetPending, nJoins, nResets, joins, pcs, streams, subs, channel,
                 offerCandidates, answerCandidates, resetEpoch, limit, frequency,
                 resetId, nTunes, messages, now, isTalking>>

\* src/App.jsx lines 139-159: decodeAudioData of invocation p resolves.
\* With no audio context in the ref, createBufferSource throws (line 140)
\* and the catch block runs; otherwise the source is built on the context
\* the ref holds now and started (line 159).
DecodeDone(c, p) ==
  /\ p \in audio[c].players /\ p.at = "decode"
  /\ audio' = [audio EXCEPT ![c] =
                 IF @.ctx = "null" THEN Catch(@, p)
                 ELSE [@ EXCEPT !.players = (@ \ {p}) \cup
                                   {[p EXCEPT !.at = "playing", !.ctx = "current"]}]]
  /\ UNCHANGED <<user, isOn, connectionStatus, pcCur, localStream, unsubscribeRef,
                 resetPending, nJoins, nResets, joins, pcs, streams, subs, channel,
                 offerCandidates, answerCandidates, resetEpoch, limit, frequency,
                 resetId, nTunes, sfApp, messages, now, isTalking>>

\* src/App.jsx lines 138-139 and 160-164: atob or decodeAudioData of
\* invocation p fails
DecodeFailed(c, p) ==
  /\ p \in audio[c].players /\ p.at = "decode"
  /\ audio' = [audio EXCEPT ![c] = Catch(@, p)]
  /\ UNCHANGED <<user, isOn, connectionStatus, pcCur, localStream, unsubscribeRef,
                 resetPending, nJoins, nResets, joins, pcs, streams, subs, channel,
                 offerCandidates, answerCandidates, resetEpoch, limit, frequency,
                 resetId, nTunes, sfApp, messages, now, isTalking>>

\* src/App.jsx lines 148-149: the source of invocation p reaches the end of
\* its clip; onended schedules the 300 ms timeout
Ended(c, p) ==
  /\ p \in audio[c].players /\ p.at = "playing" /\ p.ctx # "closed"
  /\ audio' = [audio EXCEPT ![c].players = (@ \ {p}) \cup
                                {[p EXCEPT !.at = "pause", !.ctx = "none"]}]
  /\ UNCHANGED <<user, isOn, connectionStatus, pcCur, localStream, unsubscribeRef,
                 resetPending, nJoins, nResets, joins, pcs, streams, subs, channel,
                 offerCandidates, answerCandidates, resetEpoch, limit, frequency,
                 resetId, nTunes, sfApp, messages, now, isTalking>>

\* src/App.jsx lines 148-149: onended of a source whose context was closed
\* while it played.  A platform may deliver the event or never deliver it.
EndedOnClose(c, p) ==
  /\ p \in audio[c].players /\ p.at = "playing" /\ p.ctx = "closed"
  /\ audio' = [audio EXCEPT ![c].players = (@ \ {p}) \cup
                                {[p EXCEPT !.at = "pause", !.ctx = "none"]}]
  /\ UNCHANGED <<user, isOn, connectionStatus, pcCur, localStream, unsubscribeRef,
                 resetPending, nJoins, nResets, joins, pcs, streams, subs, channel,
                 offerCandidates, answerCandidates, resetEpoch, limit, frequency,
                 resetId, nTunes, sfApp, messages, now, isTalking>>

\* src/App.jsx lines 149-157: the timeout callback of invocation p
PauseElapsed(c, p) ==
  /\ p \in audio[c].players /\ p.at = "pause"
  /\ audio' = [audio EXCEPT ![c] =
                 ProcessQueue([@ EXCEPT !.players = @ \ {p},
                                        !.isReceiving = IF audio[c].queue = <<>>
                                                          THEN FALSE ELSE @,
                                        !.isPlaying = FALSE])]
  /\ UNCHANGED <<user, isOn, connectionStatus, pcCur, localStream, unsubscribeRef,
                 resetPending, nJoins, nResets, joins, pcs, streams, subs, channel,
                 offerCandidates, answerCandidates, resetEpoch, limit, frequency,
                 resetId, nTunes, sfApp, messages, now, isTalking>>

\* The processQueue invocations client c can have in flight: one for each
\* clip, in each position
Players ==
  [clip : 1..MaxMessages, at : {"decode", "playing", "pause"},
   ctx : {"none", "current", "dropped", "closed"}]

\* src/App.jsx lines 214-220: adjustFrequency
SfAdjustFrequency(c, delta) ==
  /\ nTunes < limit.tunes
  /\ nTunes' = nTunes + 1
  /\ sfApp' = IF ~sfApp[c].isOn THEN sfApp
              ELSE [sfApp EXCEPT ![c] =
                      IF NewFreq(@.frequency, delta) = @.frequency THEN @
                      ELSE Listen([@ EXCEPT !.frequency = NewFreq(@, delta)])]
  /\ UNCHANGED <<user, isOn, connectionStatus, pcCur, localStream, unsubscribeRef,
                 resetPending, nJoins, nResets, joins, pcs, streams, subs, channel,
                 offerCandidates, answerCandidates, resetEpoch, limit, frequency,
                 resetId, messages, now, isTalking, audio>>

\* ------------------------------------ store-and-forward: the messages
\* src/App.jsx lines 188-193: the fields of a message document.  The
\* document's own id (key) is not one of them.
Message(uid, f, t) == [userId |-> uid, frequency |-> f, createdAt |-> t]

\* src/App.jsx line 117: data.id, for data = change.doc.data().  The data
\* of a message has no field id, whichever message it is.
DataId(m) == "undefined"

Abs(x) == IF x < 0 THEN -x ELSE x

Passes_Self(app, uid, m, t) ==
  /\ ~(Abs(m.frequency - app.frequency) > 1)
  /\ ~(t - m.createdAt > 30)

\* src/App.jsx lines 110-115: the frequency, sender and recency tests of the
\* listener, for the component state app of the render that registered it,
\* user id uid and Date.now() = t
Passes(app, uid, m, t) ==
  /\ ~(Abs(m.frequency - app.frequency) > 1)
  /\ ~(m.userId = uid)
  /\ ~(t - m.createdAt > 30)

\* src/App.jsx lines 107-120: the listener callback over the changes of one
\* snapshot, taken in the order ms.  setLastMessageId does not change the
\* lastMessageId the callback compares with (the value of its render, app);
\* the result is the component state after the callback: queued grows by
\* the messages queueAudio was called with, lastMessageId is the last value
\* set.
RECURSIVE Receive(_, _, _, _, _)
Receive(app, uid, ms, t, acc) ==
  IF ms = <<>> THEN acc
  ELSE LET n == Head(ms)
           m == messages[n] IN
         IF Passes(app, uid, m, t) /\ ~(DataId(m) = app.lastMessageId)
           THEN Receive(app, uid, Tail(ms), t,
                        [acc EXCEPT !.lastMessageId = DataId(m),
                                    !.queued = Append(@, n)])
           ELSE Receive(app, uid, Tail(ms), t, acc)

\* The messages listener c has not been notified of, newest first (the
\* query orders by createdAt descending, line 103).
RECURSIVE Newest(_, _)
Newest(seen, n) ==
  IF n = 0 THEN <<>>
  ELSE IF n \in seen THEN Newest(seen, n - 1)
  ELSE <<n>> \o Newest(seen, n - 1)

\* src/App.jsx lines 105-120: the store notifies the listener of the
\* messages added since its last snapshot; a changed lastMessageId re-runs
\* the effect (line 122)
SfSnapshot(c) ==
  /\ sfApp[c].sub.live
  /\ Newest(sfApp[c].sub.seen, Len(messages)) # <<>>
  /\ LET app == sfApp[c]
         after == Receive(app, c, Newest(app.sub.seen, Len(messages)), now, app) IN
       /\ sfApp' = [sfApp EXCEPT ![c] =
                      IF after.lastMessageId # app.lastMessageId
                        THEN Listen(after)
                        ELSE [after EXCEPT !.sub.seen = 1..Len(messages)]]
       /\ audio' = [audio EXCEPT ![c] =
                      QueueAudio(@, SubSeq(after.queued, Len(app.queued) + 1,
                                           Len(after.queued)))]
  /\ UNCHANGED <<user, isOn, connectionStatus, pcCur, localStream, unsubscribeRef,
                 resetPending, nJoins, nResets, joins, pcs, streams, subs, channel,
                 offerCandidates, answerCandidates, resetEpoch, limit, frequency,
                 resetId, nTunes, messages, now, isTalking>>

\* src/App.jsx lines 168-203: a transmission, from startTransmission (power
\* on, signed in, nothing being received: line 170) to the addDoc of the
\* recorder's onstop handler
SfTransmit(c) ==
  /\ sfApp[c].isOn /\ sfApp[c].user /\ ~audio[c].isReceiving
  /\ Len(messages) < MaxMessages
  /\ messages' = Append(messages, Message(c, sfApp[c].frequency, now))
  /\ UNCHANGED <<user, isOn, connectionStatus, pcCur, localStream, unsubscribeRef,
                 resetPending, nJoins, nResets, joins, pcs, streams, subs, channel,
                 offerCandidates, answerCandidates, resetEpoch, limit, frequency,
                 resetId, nTunes, sfApp, now, isTalking, audio>>

\* Time passes.
Tick ==
  /\ now < MaxNow
  /\ now' = now + TickSeconds
  /\ UNCHANGED <<user, isOn, connectionStatus, pcCur, localStream, unsubscribeRef,
                 resetPending, nJoins, nResets, joins, pcs, streams, subs, channel,
                 offerCandidates, answerCandidates, resetEpoch, limit, frequency,
                 resetId, nTunes, sfApp, messages, isTalking, audio>>

SfClients == 1..NumSfClients

InitStoreForward ==
  /\ InitSession /\ InitTuned
  /\ channel = NoDoc
  /\ limit = [joins |-> 0, resets |-> 0, cands |-> 0, tunes |-> MaxTunesSf]

NextSf ==
  \/ \E c \in SfClients : SfAuthStateChanged(c)
  \/ \E c \in SfClients : SfTogglePower(c)
  \/ \E c \in SfClients : \E granted \in BOOLEAN : SfMicResolved(c, granted)
  \/ \E c \in SfClients : \E delta \in Deltas : SfAdjustFrequency(c, delta)
  \/ \E c \in SfClients : SfTransmit(c)
  \/ \E c \in SfClients : SfSnapshot(c)
  \/ \E c \in SfClients : \E p \in Players : DecodeDone(c, p)
  \/ \E c \in SfClients : \E p \in Players : DecodeFailed(c, p)
  \/ \E c \in SfClients : \E p \in Players : Ended(c, p)
  \/ \E c \in SfClients : \E p \in Players : EndedOnClose(c, p)
  \/ \E c \in SfClients : \E p \in Players : PauseElapsed(c, p)
  \/ Tick

SpecSf == InitStoreForward /\ [][NextSf]_vars

\* Playback alone: the clock stands still and nobody retunes.  The events
\* that are bound to happen once they are possible are the settling of
\* decodeAudioData, the end of a clip on a context that is running and the
\* expiry of the 300 ms timer; what the user, the store and a closed
\* context do is under no obligation.
NextPlay ==
  \/ \E c \in SfClients : SfAuthStateChanged(c)
  \/ \E c \in SfClients : SfTogglePower(c)
  \/ \E c \in SfClients : \E granted \in BOOLEAN : SfMicResolved(c, granted)
  \/ \E c \in SfClients : SfTransmit(c)
  \/ \E c \in SfClients : SfSnapshot(c)
  \/ \E c \in SfClients : \E p \in Players : DecodeDone(c, p)
  \/ \E c \in SfClients : \E p \in Players : DecodeFailed(c, p)
  \/ \E c \in SfClients : \E p \in Players : Ended(c, p)
  \/ \E c \in SfClients : \E p \in Players : EndedOnClose(c, p)
  \/ \E c \in SfClients : \E p \in Players : PauseElapsed(c, p)

InitPlay ==
  /\ InitSession /\ InitTuned
  /\ channel = NoDoc
  /\ limit = [joins |-> 0, resets |-> 0, cands |-> 0, tunes |-> 0]

SpecPlay == InitPlay /\ [][NextPlay]_vars

PlaybackFairness ==
  \A c \in SfClients :
    /\ WF_vars(\E p \in Players : DecodeDone(c, p) \/ DecodeFailed(c, p))
    /\ WF_vars(\E p \in Players : Ended(c, p))
    /\ WF_vars(\E p \in Players : PauseElapsed(c, p))

SpecPlayFair == SpecPlay /\ PlaybackFairness

\* Frequency changes by any amount: the buttons' 0.1, amounts off the grid of
\* tenths, amounts that leave the band from anywhere in it.
AnyDeltas == {-2055, -104, -10, -5, 4, 10, 15, 2055}

\* One client of each variant, tuned anywhere on the grid, changes its
\* frequency.
InitAdjust ==
  /\ user = [c \in Clients |-> TRUE]
  /\ isOn = [c \in Clients |-> FALSE]
  /\ connectionStatus = [c \in Clients |-> "DISCONNECTED"]
  /\ pcCur = [c \in Clients |-> 0]
  /\ localStream = [c \in Clients |-> 0]
  /\ unsubscribeRef = [c \in Clients |-> 0]
  /\ resetPending = [c \in Clients |-> FALSE]
  /\ nJoins = 0
  /\ nResets = 0
  /\ joins = [j \in Joins |-> NoJoin]
  /\ pcs = [j \in Joins |-> NoPc]
  /\ streams = [j \in Joins |-> NoStream]
  /\ subs = [j \in Joins |-> NoSub]
  /\ offerCandidates = <<>>
  /\ answerCandidates = <<>>
  /\ resetEpoch = -1
  /\ resetId = [c \in Clients |-> NoId]
  /\ nTunes = 0
  /\ channel = NoDoc
  /\ messages = <<>>
  /\ now = 0
  /\ isTalking = [c \in Clients |-> FALSE]
  /\ audio = [c \in Clients |-> NoAudio]
  /\ \E f \in Band :
       /\ frequency = [c \in Clients |-> IF c = 1 THEN f ELSE InitialFrequency]
       /\ sfApp = [c \in Clients |->
                     IF c = 1 THEN [NoApp EXCEPT !.user = TRUE, !.frequency = f]
                     ELSE NoApp]
  /\ limit = [joins |-> MaxJoinsAdjust, resets |-> 0, cands |-> 0,
              tunes |-> MaxTunesAdjust]

NextAdjust ==
  \/ TogglePowerOn(1) \/ TogglePowerOff(1)
  \/ \E j \in Joins : MicDenied(j)
  \/ \E delta \in AnyDeltas : AdjustFrequency(1, delta)
  \/ SfTogglePower(1)
  \/ \E granted \in BOOLEAN : SfMicResolved(1, granted)
  \/ \E delta \in AnyDeltas : SfAdjustFrequency(1, delta)

SpecAdjust == InitAdjust /\ [][NextAdjust]_vars

\* ================================================================ claims
HasOffer(d) == d.exists /\ d.offer # NoDesc

\* The step in which join j's getDoc resolves.
ReadStep(j) == joins[j].at = "getDoc" /\ joins'[j].at # "getDoc"

\* C1: a join that reads a channel document without an offer takes the Host
\* branch and one that reads an offer takes the Guest branch; a host
\* invocation writes its offer once and no answer, a guest invocation writes
\* its answer once and no offer, and an invocation that ran to its end has
\* written exactly one.
C1_Step ==
  \A j \in Joins :
    /\ ReadStep(j) =>
         joins'[j].role = IF HasOffer(channel) THEN "guest" ELSE "host"
    /\ joins'[j].offerWrites <= 1 /\ joins'[j].answerWrites <= 1
    /\ joins'[j].role # "host" => joins'[j].offerWrites = 0
    /\ joins'[j].role # "guest" => joins'[j].answerWrites = 0
    /\ joins'[j].at = "done" /\ joins'[j].role = "host" => joins'[j].offerWrites = 1
    /\ joins'[j].at = "done" /\ joins'[j].role = "guest" => joins'[j].answerWrites = 1
    /\ joins'[j].offerWrites > joins[j].offerWrites =>
         channel'.offerJoin = j /\ channel'.answer = NoDesc
    /\ joins'[j].answerWrites > joins[j].answerWrites =>
         channel'.answerJoin = j /\ channel'.offer = channel.offer

C1_HostThenGuest == [][C1_Step]_vars

\* Two clients: the first joined the empty channel as host, the second then
\* joined as guest, and the document carries the offer of the one and the
\* answer of the other.
C1_Witness ==
  \E h \in Joins : \E g \in Joins :
    /\ h < g /\ joins[h].owner # joins[g].owner
    /\ joins[h].role = "host" /\ joins[h].at = "done" /\ joins[h].offerWrites = 1
    /\ joins[g].role = "guest" /\ joins[g].at = "done" /\ joins[g].answerWrites = 1
    /\ channel.offerJoin = h /\ channel.answerJoin = g

\* C2: once a client's connectionStatus is CONNECTED it stays CONNECTED until
\* a transport 'disconnected'/'failed' event or a leave: on every step in
\* which the user does not toggle the power of a CONNECTED client, its status
\* stays CONNECTED or becomes DISCONNECTED (what hangUp sets).
C2_StaysConnected ==
  [][\A c \in Clients :
       (connectionStatus[c] = "CONNECTED" /\ isOn'[c] = isOn[c]) =>
         connectionStatus'[c] \in {"CONNECTED", "DISCONNECTED"}]_vars

\* C3: setRemoteDescription is invoked at most once by the document listener
\* on a host's peer connection.
C3_RemoteSetOnce == \A p \in Joins : pcs[p].srdCalls <= 1

\* A leave (power off) of client c taken in the state a previous hangUp left:
\* no peer connection, no document subscription, DISCONNECTED, tracks ended.
SecondHangUp(c) ==
  /\ isOn[c] /\ ~isOn'[c]
  /\ pcCur[c] = 0 /\ unsubscribeRef[c] = 0
  /\ connectionStatus[c] = "DISCONNECTED"
  /\ localStream[c] # 0 /\ streams[localStream[c]].st = "ended"

\* C4: teardown is idempotent: a hangUp run right after a hangUp ends in the
\* same state (no peer connection, no subscription, DISCONNECTED) and calls
\* no track stop, no close and no unsubscribe a second time.
C4_NoSecondRelease ==
  [][\A c \in Clients :
       SecondHangUp(c) =>
         /\ pcCur'[c] = 0 /\ unsubscribeRef'[c] = 0
         /\ connectionStatus'[c] = "DISCONNECTED"
         /\ \A k \in Joins :
              /\ streams'[k].stops = streams[k].stops
              /\ pcs'[k].closes = pcs[k].closes
              /\ subs'[k].unsubs = subs[k].unsubs]_vars

\* The transport of client c's current peer connection p reports
\* 'disconnected' or 'failed' (its connectionState changes to one of them, or
\* to 'closed' by the teardown of the same step) with no user action.
LossStep(c, p) ==
  /\ joins[p].owner = c /\ pcCur[c] = p /\ pcs[p].st = "open"
  /\ pcs'[p].conn \in {"disconnected", "failed", "closed"}
  /\ pcs'[p].conn # pcs[p].conn
  /\ isOn'[c] = isOn[c] /\ resetPending'[c] = resetPending[c]

\* C5: a transport 'disconnected'/'failed' event on the session's peer
\* connection, from any session state, tears the session down in the same
\* step: the local tracks are stopped, the connection is closed and
\* pc.current cleared, and connectionStatus is DISCONNECTED.
C5_LossTearsDown ==
  [][\A c \in Clients : \A p \in Joins :
       LossStep(c, p) =>
         /\ pcs'[p].st = "closed" /\ pcCur'[c] = 0
         /\ localStream[c] # 0 => streams'[localStream[c]].st = "ended"
         /\ connectionStatus'[c] = "DISCONNECTED"]_vars

\* a host that completed its join and was still awaiting an answer has been
\* torn down while its power stayed on
C5_Witness ==
  \E j \in Joins :
    /\ joins[j].role = "host" /\ joins[j].at = "done"
    /\ Cardinality({k \in Joins : joins[k].owner = joins[j].owner}) = 1
    /\ isOn[joins[j].owner] /\ channel.offerJoin = j /\ channel.answer = NoDesc
    /\ pcs[j].st = "closed" /\ pcs[j].srdCalls = 0 /\ pcCur[joins[j].owner] = 0
    /\ streams[j].st = "ended"
    /\ connectionStatus[joins[j].owner] = "DISCONNECTED"

\* Join j is its client's only joinFrequency invocation and has run to its
\* end, so its subscriptions are registered.
Joined(j) ==
  /\ joins[j].at = "done"
  /\ Cardinality({k \in Joins : joins[k].owner = joins[j].owner}) = 1

\* C6: when hangUp returns, both subscriptions of the session are released,
\* in both roles (the document listener is not live and the candidate
\* listener is not registered), and once the document subscription has been
\* released no candidate notification is delivered to the session.
C6_BothReleased ==
  [][\A j \in Joins :
       Joined(j) =>
         /\ (pcCur[joins[j].owner] # 0 /\ pcCur'[joins[j].owner] = 0) =>
              (subs'[j].doc # "live" /\ subs'[j].cand = "none")
         /\ subs[j].doc = "released" => subs'[j].seen = subs[j].seen]_vars

Occupied(d) == HasOffer(d) /\ d.answer # NoDesc

\* C7: resetChannel on an occupied channel (offer and answer present) removes
\* the channel document; a join that reads the channel while the document is
\* absent takes the host branch, and its write leaves a fresh document: its
\* own offer and no answer, as on an empty channel.
C7_Step ==
  /\ (nResets' = nResets + 1 /\ Occupied(channel)) => channel' = NoDoc
  /\ \A j \in Joins :
       /\ (ReadStep(j) /\ ~channel.exists) => joins'[j].role = "host"
       /\ (joins[j].role = "host" /\ joins'[j].offerWrites # joins[j].offerWrites) =>
            /\ channel'.exists /\ channel'.offer = joins'[j].desc
            /\ channel'.offer.type = "offer" /\ channel'.offerJoin = j
            /\ channel'.answer = NoDesc

C7_ResetThenHost == [][C7_Step]_vars

\* an occupied channel was reset and a join started afterwards has hosted it:
\* the document holds that join's offer and no answer
C7_Witness ==
  /\ resetEpoch >= 0 /\ nResets > 0
  /\ \E j \in Joins :
       /\ j > resetEpoch /\ joins[j].role = "host" /\ joins[j].at = "done"
       /\ joins[j].offerWrites = 1
       /\ channel.offerJoin = j /\ channel.answer = NoDesc

\* Join j lost a dual-host race: it is its client's only join, it wrote an
\* offer that another client's offer write replaced, and its session is
\* still up (its connection is pc.current, its listeners are registered).
RaceLoser(j) ==
  /\ Joined(j) /\ joins[j].role = "host" /\ joins[j].clobbered
  /\ pcCur[joins[j].owner] = j /\ Open(j)
  /\ channel.offerJoin # j /\ joins[channel.offerJoin].owner # joins[j].owner

\* C8: the loser of a dual-host race stalls awaiting an answer: whatever
\* guests join afterwards, it invokes no setRemoteDescription, applies no
\* remote description and its status stays WAITING FOR PEER... .
C8_LoserStalls ==
  \A j \in Joins :
    RaceLoser(j) =>
      /\ pcs[j].srdCalls = 0 /\ pcs[j].remote = NoDesc
      /\ connectionStatus[joins[j].owner] = "WAITING FOR PEER..."

\* C9: once the channel document carries an offer, every join that reads
\* the channel takes the guest branch, whether or not the offer's writer is
\* still listening, and the document keeps carrying an offer until
\* resetChannel deletes it: no hangUp (power off, transport loss), join or
\* listener step deletes the document or clears its offer.
C9_Step ==
  /\ (HasOffer(channel) /\ ~HasOffer(channel')) =>
       (nResets' = nResets + 1 /\ channel' = NoDoc)
  /\ \A j \in Joins :
       (ReadStep(j) /\ HasOffer(channel)) => joins'[j].role = "guest"

AnswerApplied(p) ==
  /\ Joined(p) /\ joins[p].role = "host"
  /\ pcs[p].st = "open" /\ pcs[p].sig = "stable"
  /\ pcs[p].local.type = "offer" /\ pcs[p].remote.type = "answer"

\* C10: a join that reads a channel holding both offer and answer takes the
\* guest branch, and its write replaces the stored answer by its own and
\* keeps the offer; a host connection on which an answer has been applied
\* keeps that answer: no later notification makes its listener call
\* setRemoteDescription again or changes its remote description.
C10_Step ==
  /\ \A j \in Joins :
       /\ (ReadStep(j) /\ Occupied(channel)) => joins'[j].role = "guest"
       /\ (Occupied(channel) /\ joins'[j].answerWrites # joins[j].answerWrites) =>
            /\ joins[j].role = "guest"
            /\ channel'.answer = joins'[j].desc /\ channel'.answerJoin = j
            /\ channel'.offer = channel.offer
  /\ \A p \in Joins :
       (AnswerApplied(p) /\ pcs'[p].st = "open") =>
         /\ pcs'[p].remote = pcs[p].remote
         /\ pcs'[p].srdCalls = pcs[p].srdCalls
         /\ Len(pcs'[p].srdQ) <= Len(pcs[p].srdQ)

C10_ThirdJoinOverwrites == [][C10_Step]_vars

\* a third join has overwritten the answer the host had applied, and the
\* host's listener has been notified of it and left the connection alone
C10_Witness ==
  \E h, g \in Joins :
    /\ joins[h].role = "host" /\ joins[h].at = "done" /\ pcCur[joins[h].owner] = h
    /\ AnswerApplied(h) /\ pcs[h].srdCalls = 1 /\ pcs[h].srdQ = <<>>
    /\ channel.offerJoin = h /\ channel.answerJoin = g
    /\ joins[g].role = "guest" /\ joins[g].answerWrites = 1
    /\ channel.answer # pcs[h].remote /\ pcs[h].remote.by # g
    /\ subs[h].doc = "live" /\ ~subs[h].dirty

\* C11: while the channel document exists, its offer field is written once
\* and its answer field at most once: a stored offer is never replaced, and a
\* stored answer is never replaced or erased (until resetChannel deletes the
\* document).
C11_WriteOnce ==
  [][(channel.exists /\ channel'.exists) =>
       /\ channel.offer # NoDesc => channel'.offer = channel.offer
       /\ channel.answer # NoDesc => channel'.answer = channel.answer]_vars

\* C12: join is a no-op while the client is joined or joining: no
\* joinFrequency invocation creates a peer connection while the client
\* already holds one (pc.current set by another invocation and not torn
\* down since).
C12_JoinIdempotent ==
  [][\A k \in Joins :
       (pcs[k].st = "none" /\ pcs'[k].st = "open") => pcCur[joins[k].owner] = 0]_vars

\* A step of client c's resetChannel: the deleteDoc request, or the
\* continuation after its await.
ResetStep(c) == resetPending'[c] # resetPending[c]

\* C13: resetChannel deletes the channel document and closes no local
\* session: the caller's peer connection, media tracks, subscriptions and
\* connectionStatus are the same after each of its steps as before.
C13_ResetFrame ==
  [][\A c \in Clients :
       ResetStep(c) =>
         /\ resetPending[c] \/ channel' = NoDoc
         /\ pcCur'[c] = pcCur[c] /\ unsubscribeRef'[c] = unsubscribeRef[c]
         /\ connectionStatus'[c] = connectionStatus[c]
         /\ pcs' = pcs /\ streams' = streams
         /\ \A j \in Joins : subs'[j].doc = subs[j].doc /\ subs'[j].cand = subs[j].cand]_vars

\* The client's only joinFrequency invocation j ends without completing
\* (setupAudio returned null, or an awaited call rejected).
JoinFails(j) ==
  /\ joins[j].at \notin {"unborn", "stopped", "done"} /\ joins'[j].at = "stopped"
  /\ Cardinality({k \in Joins : joins[k].owner = joins[j].owner}) = 1

\* C14: every failed join ends in the closed state: after a power-on without
\* an identity, and after the step in which an invocation fails,
\* connectionStatus is DISCONNECTED and the client holds no peer connection
\* and no subscription.
C14_FailedJoinCloses ==
  [][/\ \A c \in Clients :
          (~user[c] /\ ~isOn[c] /\ isOn'[c]) =>
            (connectionStatus'[c] = "DISCONNECTED" /\ pcCur'[c] = 0)
     /\ \A j \in Joins :
          JoinFails(j) =>
            /\ connectionStatus'[joins[j].owner] = "DISCONNECTED"
            /\ pcCur'[joins[j].owner] = 0 /\ unsubscribeRef'[joins[j].owner] = 0
            /\ subs'[j].doc # "live" /\ subs'[j].cand = "none"]_vars

\* C15: the exposed connection state of every client is always one of
\* DISCONNECTED, CONNECTING, CONNECTED.
C15_StatusDomain ==
  \A c \in Clients : connectionStatus[c] \in {"DISCONNECTED", "CONNECTING", "CONNECTED"}

\* The connectionState of the still open connection p changes to s.
StateChange(p, s) ==
  /\ pcs[p].st = "open" /\ pcs'[p].st = "open"
  /\ pcs[p].conn # s /\ pcs'[p].conn = s

\* C16: the connection-state handler is fail-closed: 'connected' sets
\* CONNECTED, and a change to any state the handler has no branch for sets
\* DISCONNECTED.
C16_FailClosed ==
  [][\A p \in Joins :
       /\ StateChange(p, "connected") =>
            connectionStatus'[joins[p].owner] = "CONNECTED"
       /\ \A s \in {"new", "connecting", "closed"} :
            StateChange(p, s) => connectionStatus'[joins[p].owner] = "DISCONNECTED"]_vars

IsPrefix(a, b) == Len(a) <= Len(b) /\ SubSeq(b, 1, Len(a)) = a

Range(q) == {q[i] : i \in 1..Len(q)}

\* The role in which connection p negotiates: the offerer is the host, the
\* answerer the guest.
RoleOf(p) ==
  IF pcs[p].local.type = "offer" THEN "host"
  ELSE IF pcs[p].local.type = "answer" THEN "guest" ELSE "none"

\* C17: candidates are routed by role.  A candidate generated by a host's
\* connection is appended to offerCandidates and one generated by a guest's
\* to answerCandidates, after the entries already there and never to the
\* other collection; the collections only grow by appending (no entry is
\* changed, reordered or removed); a host's transport is given only entries
\* of answerCandidates and a guest's only entries of offerCandidates.
C17_Step ==
  /\ IsPrefix(offerCandidates, offerCandidates')
  /\ IsPrefix(answerCandidates, answerCandidates')
  /\ \A i \in 1..Len(offerCandidates') :
       i > Len(offerCandidates) => RoleOf(offerCandidates'[i].from) = "host"
  /\ \A i \in 1..Len(answerCandidates') :
       i > Len(answerCandidates) => RoleOf(answerCandidates'[i].from) = "guest"
  /\ \A p \in Joins :
       /\ RoleOf(p) = "host" =>
            (pcs'[p].cands \ pcs[p].cands) \subseteq Range(answerCandidates)
       /\ RoleOf(p) = "guest" =>
            (pcs'[p].cands \ pcs[p].cands) \subseteq Range(offerCandidates)

C17_RoutedByRole == [][C17_Step]_vars

\* C18: candidate relay is idempotent under duplicate delivery.  Relaying a
\* notification twice leaves every connection as relaying it once does, and
\* a repeated notification for a candidate the transport already has
\* changes neither a connection (its candidate set, its connection state)
\* nor connectionStatus.
C18_Step ==
  /\ \A j \in Joins : \A i \in 1..Len(Watched(j)) :
       subs[j].cand # "none" =>
         LET p == pcCur[joins[j].owner]
             x == Watched(j)[i] IN
           AddIceCandidate(AddIceCandidate(pcs, p, x), p, x) = AddIceCandidate(pcs, p, x)
  /\ \A j \in Joins :
       (subs[j].dups = "none" /\ subs'[j].dups = "known") =>
         (pcs' = pcs /\ connectionStatus' = connectionStatus)

BandIds == [g \in Band |-> CallId(g)]

C19_Step ==
  /\ \A j \in Joins :
       (joins[j].callId = NoId /\ joins'[j].callId # NoId) =>
         /\ \A g \in Band : (BandIds[g] = joins'[j].callId) <=> (g = joins[j].freq)
         /\ \A k \in Joins :
              joins[k].callId # NoId =>
                ((joins'[j].callId = joins[k].callId) <=> (joins[j].freq = joins[k].freq))
  /\ \A c \in Clients :
       (resetId[c] = NoId /\ resetId'[c] # NoId) =>
         \A j \in Joins :
           joins[j].callId # NoId =>
             ((resetId'[c] = joins[j].callId) <=> (frequency[c] = joins[j].freq))

C19_ResolverInjective == [][C19_Step]_vars

\* two invocations at different frequencies hold different ids while a
\* resetChannel addresses the id of one of them
C19_Witness ==
  \E j, k \in Joins : \E c \in Clients :
    /\ joins[j].callId # NoId /\ joins[k].callId # NoId
    /\ joins[j].freq # joins[k].freq /\ joins[j].callId # joins[k].callId
    /\ resetPending[c] /\ resetId[c] = joins[j].callId
    /\ frequency[c] = joins[j].freq

\* C20: Closed is left only by an explicit restart.  Once a client's session
\* has been torn down (connectionStatus is back at DISCONNECTED after a
\* power-on), no step other than the user powering on again issues a channel
\* read for that client, writes an offer or an answer for it, or creates a
\* peer connection for it.
Closed(c) ==
  /\ connectionStatus[c] = "DISCONNECTED"
  /\ \E j \in Joins : joins[j].owner = c

C20_Step ==
  \A c \in Clients :
    (Closed(c) /\ ~(~isOn[c] /\ isOn'[c])) =>
      \A j \in Joins :
        joins[j].owner = c =>
          /\ joins[j].at = "mic" => joins'[j].at # "getDoc"
          /\ joins'[j].offerWrites = joins[j].offerWrites
          /\ joins'[j].answerWrites = joins[j].answerWrites
          /\ pcs[j].st = "none" => pcs'[j].st = "none"

C20_ClosedUntilRestart == [][C20_Step]_vars

\* C21: offer/answer pairing.  An answer that a connection has applied as
\* its remote description was generated against that connection's own
\* offer, under every interleaving of joins on the channel (stated for the
\* clients that have invoked joinFrequency once).
C21_AnswerPaired ==
  \A p \in Joins :
    (Joined(p) /\ pcs[p].remote.type = "answer") => pcs[p].remote.to = p

\* Join j is suspended at one of its awaits and hangUp has run since it was
\* invoked: it is its client's only invocation and the power is off again.
LeftInFlight(j) ==
  /\ joins[j].at \in {"mic", "getDoc", "describe", "write"}
  /\ Cardinality({k \in Joins : joins[k].owner = joins[j].owner}) = 1
  /\ ~isOn[joins[j].owner]

\* C22: leave during an in-flight join.  When hangUp has run while
\* joinFrequency was suspended at an await, the resumed join writes no offer
\* and no answer, registers no subscription and leaves connectionStatus at
\* DISCONNECTED, and no subscription of the session is live afterwards.
C22_Step ==
  \A j \in Joins :
    (LeftInFlight(j) /\ ~isOn'[joins[j].owner]) =>
      /\ joins'[j].offerWrites = joins[j].offerWrites
      /\ joins'[j].answerWrites = joins[j].answerWrites
      /\ subs'[j].doc # "live" /\ subs'[j].cand = "none"
      /\ connectionStatus'[joins[j].owner] = "DISCONNECTED"

C22_LeaveCancelsJoin == [][C22_Step]_vars

\* Candidate listener j takes the next 'added' change and relays it to the
\* session's connection (pc.current is join j's connection).
RelayStep(j) ==
  /\ Joined(j) /\ subs[j].cand # "none"
  /\ subs'[j].seen = subs[j].seen + 1
  /\ pcCur[joins[j].owner] = j

\* C23: a session never relays a remote candidate to its transport before
\* its remote description has been applied: at every addIceCandidate the
\* connection has a remote description, in both roles and under every
\* interleaving of the document listener and the candidate listener.
C23_Step == \A j \in Joins : RelayStep(j) => pcs[j].remote # NoDesc

C23_RelayAfterRemote == [][C23_Step]_vars

\* C24: every candidate a session has relayed to its transport was generated
\* by the peer it is negotiating with (the connection whose description is
\* its remote description); candidates that earlier sessions left in the
\* channel's sub-collections never reach the transport of a new session.
C24_OnlyPeerCandidates ==
  \A p \in Joins :
    Joined(p) => \A x \in pcs[p].cands : x.from = pcs[p].remote.by

\* C25: publish-after-apply ordering in both roles.  When an invocation's
\* offer becomes visible in the channel document, the client's connection
\* has it as local description; when an invocation's answer becomes
\* visible, the client's connection has the offer the invocation read as
\* remote description and the answer as local description.  The host's
\* document and candidate subscriptions start only after its offer write,
\* and a guest never subscribes to the document.
C25_Step ==
  \A j \in Joins :
    LET t == pcCur[joins[j].owner] IN
      /\ joins'[j].offerWrites # joins[j].offerWrites =>
            /\ t # 0 /\ channel'.offer = joins'[j].desc
            /\ pcs'[t].local = channel'.offer
      /\ joins'[j].answerWrites # joins[j].answerWrites =>
            /\ t # 0 /\ channel'.answer = joins'[j].desc
            /\ pcs'[t].local = channel'.answer
            /\ pcs'[t].remote = joins[j].data
      /\ (subs[j].doc = "none" /\ subs'[j].doc = "live") =>
            /\ joins[j].role = "host" /\ joins[j].at = "write"
            /\ joins[j].offerWrites >= 1
            /\ subs[j].cand = "none" /\ subs'[j].cand = "answer"
      /\ joins'[j].role = "guest" => subs'[j].doc = "none"

C25_PublishAfterApply == [][C25_Step]_vars

\* a host's offer and a guest's answer to it are in the document, each
\* applied by its writer, and the host is subscribed
C25_Witness ==
  \E h, g \in Joins :
    /\ Joined(h) /\ Joined(g) /\ joins[h].role = "host" /\ joins[g].role = "guest"
    /\ channel.exists /\ channel.offerJoin = h /\ channel.answerJoin = g
    /\ pcs[h].local = channel.offer
    /\ pcs[g].local = channel.answer /\ pcs[g].remote = channel.offer
    /\ subs[h].doc = "live" /\ subs[h].cand = "answer" /\ subs[g].doc = "none"

\* C26: frequency change in the live-link variant.  A declined confirmation
\* changes nothing: frequency, power, session and connectionStatus are as
\* before.  Otherwise, when adjustFrequency completes the power is off and
\* neither a peer connection nor a document subscription is attached.
C26_Step ==
  /\ (nTunes' = nTunes + 1 /\ isOn' = isOn) =>
       /\ frequency' = frequency /\ connectionStatus' = connectionStatus
       /\ pcCur' = pcCur /\ pcs' = pcs /\ subs' = subs /\ streams' = streams
       /\ unsubscribeRef' = unsubscribeRef /\ joins' = joins /\ channel' = channel
  /\ \A c \in Clients :
       (nTunes' = nTunes + 1 /\ isOn[c] /\ ~isOn'[c]) =>
         /\ pcCur'[c] = 0 /\ unsubscribeRef'[c] = 0
         /\ \A j \in Joins :
              joins[j].owner = c => (pcs'[j].st # "open" /\ subs'[j].doc # "live")

C26_TuneTearsDown == [][C26_Step]_vars

\* C27: after any sequence of adjustFrequency calls with any deltas the
\* frequency is within the band 87.5..108.0 and on its grid of one-decimal
\* values, in both variants, and in the store-and-forward variant
\* adjustFrequency leaves the frequency unchanged while the power is off.
C27_Step ==
  /\ \A c \in Clients : frequency'[c] \in Band /\ sfApp'[c].frequency \in Band
  /\ \A c \in Clients :
       (nTunes' = nTunes + 1 /\ ~sfApp[c].isOn) =>
         sfApp'[c].frequency = sfApp[c].frequency

C27_FrequencyInBand == [][C27_Step]_vars

\* both variants have been retuned from the same frequency with amounts
\* that leave the band, one at each end
C27_Witness ==
  /\ nTunes = 2
  /\ frequency[1] = FreqMax /\ sfApp[1].frequency = FreqMin

\* C28: push-to-talk gates the local audio track.  The track is disabled
\* when it is acquired; a live local track is enabled only while the talk
\* button is held and the power is on; isTalking is not true with the power
\* off or with the session torn down (connectionStatus DISCONNECTED).
C28_PushToTalkGates ==
  /\ \A j \in Joins :
       /\ (joins[j].at = "getDoc") => ~streams[j].enabled
       /\ (streams[j].st = "live" /\ streams[j].enabled) =>
            (isTalking[joins[j].owner] /\ isOn[joins[j].owner])
  /\ \A c \in Clients :
       isTalking[c] => (isOn[c] /\ connectionStatus[c] # "DISCONNECTED")

\* The listener of store-and-forward client c handles a snapshot in this
\* step and queues the messages Added(c).
SnapshotStep(c) ==
  /\ sfApp[c].sub.live /\ sfApp'[c] # sfApp[c]
  /\ messages' = messages /\ now' = now
  /\ sfApp'[c].user = sfApp[c].user /\ sfApp'[c].isOn = sfApp[c].isOn
  /\ sfApp'[c].frequency = sfApp[c].frequency

Added(c) ==
  {sfApp'[c].queued[i] : i \in (Len(sfApp[c].queued) + 1)..Len(sfApp'[c].queued)}

\* C29: the store-and-forward receiver filter.  A message is queued for
\* playback only if the receiver is signed in and powered on, the message's
\* frequency is within 0.01 of the receiver's frequency, its sender is not
\* the receiver and it is at most 30 seconds old; queued grows in no other
\* way, and a receiver never queues its own transmission.
C29_Step ==
  \A c \in Clients :
    /\ \A n \in Added(c) :
         /\ sfApp[c].user /\ sfApp[c].isOn
         /\ Abs(messages[n].frequency - sfApp[c].frequency) <= 1
         /\ messages[n].userId # c
         /\ now - messages[n].createdAt <= 30
    /\ IsPrefix(sfApp[c].queued, sfApp'[c].queued)
    /\ \A i \in 1..Len(sfApp'[c].queued) : messages'[sfApp'[c].queued[i]].userId # c

C29_ReceiverFilter == [][C29_Step]_vars

\* a receiver has queued a message of another client and has been notified
\* of a message of its own and of a message sent on another frequency,
\* neither of which it queued
C29_Witness ==
  \E c \in Clients :
    /\ Len(sfApp[c].queued) = 1
    /\ \E n \in sfApp[c].sub.seen : messages[n].userId = c
    /\ \E n \in sfApp[c].sub.seen :
         /\ messages[n].userId # c /\ n \notin Range(sfApp[c].queued)
         /\ messages[n].frequency # messages[sfApp[c].queued[1]].frequency

\* C30: the store-and-forward duplicate check.  While the receiver stays on
\* and tuned, every message that passes the frequency, sender and recency
\* tests is queued exactly once: a snapshot queues each such message that
\* was not queued before, and no message is ever queued twice.
C30_Step ==
  \A c \in Clients :
    /\ SnapshotStep(c) =>
         \A n \in (1..Len(messages)) \ sfApp[c].sub.seen :
           (Passes(sfApp[c], c, messages[n], now) /\ n \notin Range(sfApp[c].queued))
             => n \in Range(sfApp'[c].queued)
    /\ \A i, k \in 1..Len(sfApp'[c].queued) :
         sfApp'[c].queued[i] = sfApp'[c].queued[k] => i = k

C30_QueuedExactlyOnce == [][C30_Step]_vars

\* The clips of client c that are audible: their source has started on a
\* context that has not been closed and has not reached its end.
Playing(c) == {p \in audio[c].players : p.at = "playing" /\ p.ctx # "closed"}

\* The clips waiting to start: in the queue, or shifted and being decoded.
Waiting(a) == Range(a.queue) \cup {p.clip : p \in {q \in a.players : q.at = "decode"}}

\* A source starts for clip n of client c in this step.
Starts(c, n) ==
  /\ \E p \in audio'[c].players : p.clip = n /\ p.at = "playing"
  /\ ~\E p \in audio[c].players : p.clip = n /\ p.at = "playing"

C31_Serial ==
  \A c \in Clients :
    /\ Cardinality(Playing(c)) <= 1
    /\ Cardinality(audio[c].players) <= 1
    /\ audio[c].players # {} => audio[c].isPlaying

C31_Step ==
  \A c \in Clients :
    /\ \A n \in 1..MaxMessages :
         Starts(c, n) =>
           \A i, k \in 1..Len(sfApp[c].queued) :
             (sfApp[c].queued[k] = n /\ i < k)
               => sfApp[c].queued[i] \notin Waiting(audio'[c])
    /\ Waiting(audio'[c]) \ Waiting(audio[c]) \subseteq Added(c)

\* C31: store-and-forward playback is serialized and FIFO.  At most one clip
\* is audible at any time and at most one processQueue invocation is in
\* progress (a processQueue call while isPlaying is set starts nothing);
\* when a clip starts, no clip queued before it is still waiting, and a
\* clip waits only from the queueAudio call that queued it, so clips start
\* in the order in which they were queued.
C31_SerialFifo == []C31_Serial /\ [][C31_Step]_vars

\* the second clip a receiver queued is playing while the third waits in
\* the queue: the first is over, and queueAudio called processQueue for the
\* second and the third while isPlaying was set
C31_Witness ==
  \E c \in Clients :
    /\ Len(sfApp[c].queued) = 3
    /\ \E p \in Playing(c) : p.clip = sfApp[c].queued[2]
    /\ audio[c].queue = <<sfApp[c].queued[3]>>
    /\ audio[c].isPlaying

\* Playback of client c has work left or a flag set / is at rest.
Busy(c) == audio[c].queue # <<>> \/ audio[c].isPlaying \/ audio[c].isReceiving
AtRest(c) == audio[c].queue = <<>> /\ ~audio[c].isPlaying /\ ~audio[c].isReceiving

\* C32: store-and-forward playback makes progress.  Whenever the power is
\* on and a clip is queued or a playback flag is set, then, unless the
\* power goes off, the queue eventually is empty with isPlaying and
\* isReceiving false; also after a decode error and after the power was
\* switched off and on during playback.
C32_PlaybackProgress ==
  \A c \in SfClients :
    (sfApp[c].isOn /\ Busy(c)) ~> (~sfApp[c].isOn \/ AtRest(c))

====
